---- MODULE Spec2Model ----
(***************************************************************************)
(* Event Manager of the kernel (src/src/event/manager.rs): ownership       *)
(* registry of interrupts, exceptions and scheduling events, the pending   *)
(* queues, the wait/resume protocol and the injection paths, together with *)
(* the per-process mailbox (src/src/ipc/mbx/mailbox.rs) and the process    *)
(* capabilities (src/src/pm/process/capability.rs).                        *)
(***************************************************************************)
EXTENDS Integers, Sequences, FiniteSets, Bags, TLC

\* ---------------------------------------------------------------- bounds
\* Number of event indices modelled per class (usize::BITS in the source).
NIdx == 1
\* Cap on nevents, i.e. on the number of injections in one behaviour.
MaxEvents == 2
\* Cap on the number of live EventOwnership handles.
MaxHandles == 2
\* Cap on the length of a mailbox.
MaxMailbox == 1
\* The messages sent to the mailbox whose order is followed.
MaxSent == 3

\* ---------------------------------------------------------------- values
Pids == {"PROCD", "A", "B"}
KERNEL == "KERNEL"
None == "None"

Idx == 0 .. (NIdx - 1)
\* SchedulingEvent::NUMBER_EVENTS = 1: the only kind is ProcessTermination.
SchedIdx == {0}
ProcessTermination == 0

Classes == {"Interrupt", "Exception", "Scheduling"}
Events ==
    [cls : {"Interrupt", "Exception"}, idx : Idx]
        \cup [cls : {"Scheduling"}, idx : SchedIdx]
Requests == {"Register", "Unregister"}

\* Fault records delivered by the trap surface (code, address, instruction).
FaultInfos == {[code |-> 2, addr |-> 64, instruction |-> 16]}
\* Exit statuses of reaped processes (i32).
Statuses == {0, -1}

NoMask == [I |-> {}, X |-> {}, S |-> {}]
NoMsg == [source |-> None, destination |-> None, message_type |-> "None",
          status |-> 0, payload |-> <<>>]

VARIABLES
    initialized,           \* MANAGER is Some
    interrupt_capable,
    nevents,
    interrupt_ownership,
    pending_interrupts,
    exception_ownership,
    pending_exceptions,
    scheduling_ownership,
    pending_scheduling,
    capabilities,          \* per process Capabilities
    mailbox,               \* per process Mailbox.buffer
    pstate,                \* per process: position of its flow of control
    wmask,                 \* per process: masks computed at entry to wait
    parked_on,             \* per process: the ResumeHandle it is parked on
    handles,               \* live EventOwnership handles, each with its holder
    panicked,              \* the kernel hit a panic
    zombies,               \* terminated processes not harvested yet
    dispatcher,            \* position of kcall_handler
    borrowed,              \* the RefCell of the manager is mutably borrowed
    scoreboard,            \* the kcall request posted, the requests taken
    pc,                    \* position of kcall_handler inside one turn
    reply,                 \* kcall_handler: ret, kept for scoreboard.handled
    history,               \* what was sent, injected, received and delivered
    last                   \* the last operation and its result

emvars == <<initialized, interrupt_capable, nevents,
            interrupt_ownership, pending_interrupts,
            exception_ownership, pending_exceptions,
            scheduling_ownership, pending_scheduling>>
ownvars == <<interrupt_ownership, exception_ownership, scheduling_ownership>>
pendvars == <<pending_interrupts, pending_exceptions, pending_scheduling>>
procvars == <<pstate, wmask, parked_on>>
dispvars == <<zombies, dispatcher>>
loopvars == <<scoreboard, pc, reply>>
auxvars == <<borrowed, scoreboard, pc, reply, history>>
vars == <<initialized, interrupt_capable, nevents,
          interrupt_ownership, pending_interrupts,
          exception_ownership, pending_exceptions,
          scheduling_ownership, pending_scheduling,
          capabilities, mailbox, pstate, wmask, parked_on, handles,
          panicked, zombies, dispatcher, borrowed, scoreboard, pc, reply,
          history, last>>

\* ------------------------------------------------------- capabilities
\* Capabilities::has
has(caps, capability) == capability \in caps

\* ProcessManager::has_capability
has_capability(pid, capability) == has(capabilities[pid], capability)

\* ------------------------------------------------------------- registry
Res(ret, own) == [ret |-> ret, own |-> own]

\* EventManagerInner::do_evctrl_interrupt
do_evctrl_interrupt(own, pid, idx, req) ==
    IF own[idx] # None
    THEN Res("ResourceBusy", own)
    ELSE IF req = "Register"
    THEN IF pid = None
         THEN Res("InvalidArgument", own)
         ELSE IF ~has_capability(pid, "InterruptControl")
         THEN Res("PermissionDenied", own)
         ELSE IF own[idx] # None
         THEN Res("ResourceBusy", own)
         ELSE Res("Ok", [own EXCEPT ![idx] = pid])
    ELSE IF pid # None /\ own[idx] # pid
         THEN Res("PermissionDenied", own)
         ELSE Res("Ok", [own EXCEPT ![idx] = None])

\* do_evctrl_exception without the check that the slot is free.
do_evctrl_exception_overwrite(own, pid, idx, req) ==
    IF req = "Register"
    THEN IF pid = None
         THEN Res("InvalidArgument", own)
         ELSE IF ~has_capability(pid, "ExceptionControl")
         THEN Res("PermissionDenied", own)
         ELSE Res("Ok", [own EXCEPT ![idx] = pid])
    ELSE IF pid # None /\ own[idx] # pid
         THEN Res("PermissionDenied", own)
         ELSE Res("Ok", [own EXCEPT ![idx] = None])

\* EventManagerInner::do_evctrl_exception
do_evctrl_exception(own, pid, idx, req) ==
    IF req = "Register"
    THEN IF pid = None
         THEN Res("InvalidArgument", own)
         ELSE IF ~has_capability(pid, "ExceptionControl")
         THEN Res("PermissionDenied", own)
         ELSE IF own[idx] # None
         THEN Res("ResourceBusy", own)
         ELSE Res("Ok", [own EXCEPT ![idx] = pid])
    ELSE IF pid # None /\ own[idx] # pid
         THEN Res("PermissionDenied", own)
         ELSE Res("Ok", [own EXCEPT ![idx] = None])

\* EventManagerInner::do_evctrl_scheduling
do_evctrl_scheduling(own, pid, idx, req) ==
    IF req = "Register"
    THEN IF pid = None
         THEN Res("InvalidArgument", own)
         ELSE IF ~has_capability(pid, "ProcessManagement")
         THEN Res("PermissionDenied", own)
         ELSE IF own[idx] # None
         THEN Res("ResourceBusy", own)
         ELSE Res("Ok", [own EXCEPT ![idx] = pid])
    ELSE IF pid # None /\ own[idx] # pid
         THEN Res("PermissionDenied", own)
         ELSE Res("Ok", [own EXCEPT ![idx] = None])

\* The ownership table of a class, and the slot of an event.
OwnershipOf(cls) ==
    CASE cls = "Interrupt" -> interrupt_ownership
      [] cls = "Exception" -> exception_ownership
      [] cls = "Scheduling" -> scheduling_ownership
Owner(ev) == OwnershipOf(ev.cls)[ev.idx]

\* The result of an evctrl: the three ownership tables.
Res3(ret, io, eo, so) == [ret |-> ret, io |-> io, eo |-> eo, so |-> so]

\* Mutant of do_evctrl: an Unregister of an exception that succeeds also
\* clears the scheduling slots.
do_evctrl_clears_scheduling(pid, ev, req) ==
    CASE ev.cls = "Interrupt" ->
            LET r == do_evctrl_interrupt(interrupt_ownership, pid, ev.idx, req)
            IN  Res3(r.ret, r.own, exception_ownership, scheduling_ownership)
      [] ev.cls = "Exception" ->
            LET r == do_evctrl_exception(exception_ownership, pid, ev.idx, req)
            IN  Res3(r.ret, interrupt_ownership, r.own,
                     IF r.ret = "Ok" /\ req = "Unregister"
                     THEN [i \in SchedIdx |-> None]
                     ELSE scheduling_ownership)
      [] ev.cls = "Scheduling" ->
            LET r == do_evctrl_scheduling(scheduling_ownership, pid, ev.idx, req)
            IN  Res3(r.ret, interrupt_ownership, exception_ownership, r.own)

\* The dispatch of EventManager::evctrl and of Drop for EventOwnership to the
\* class's do_evctrl_*; the result carries the three ownership tables.
do_evctrl(pid, ev, req) ==
    CASE ev.cls = "Interrupt" ->
            LET r == do_evctrl_interrupt(interrupt_ownership, pid, ev.idx, req)
            IN  Res3(r.ret, r.own, exception_ownership, scheduling_ownership)
      [] ev.cls = "Exception" ->
            LET r == do_evctrl_exception(exception_ownership, pid, ev.idx, req)
            IN  Res3(r.ret, interrupt_ownership, r.own, scheduling_ownership)
      [] ev.cls = "Scheduling" ->
            LET r == do_evctrl_scheduling(scheduling_ownership, pid, ev.idx, req)
            IN  Res3(r.ret, interrupt_ownership, exception_ownership, r.own)

\* evctrl with the test of interrupt_capable inverted.
evctrl_inverted(pid, ev, req) ==
    IF ev.cls = "Interrupt" /\ interrupt_capable
    THEN Res3("OperationNotSupported", interrupt_ownership,
              exception_ownership, scheduling_ownership)
    ELSE do_evctrl(pid, ev, req)

\* EventManager::evctrl, up to the creation of the handle.
evctrl(pid, ev, req) ==
    IF ev.cls = "Interrupt" /\ ~interrupt_capable
    THEN Res3("OperationNotSupported", interrupt_ownership,
              exception_ownership, scheduling_ownership)
    ELSE do_evctrl(pid, ev, req)

\* An EventOwnership handle: its event, and the process that evctrl returned
\* it to.
Handle(ev, pid) == [ev |-> ev, pid |-> pid]
Handles == [ev : Events, pid : Pids]

\* The record of an operation, kept in last.
Op(op, pid, ev, req, ret, msg, seq) ==
    [op |-> op, pid |-> pid, ev |-> ev, req |-> req, ret |-> ret, msg |-> msg,
     seq |-> seq]
NoEv == [cls |-> "None", idx |-> 0]
\* A kcall request on the scoreboard: the number and the arguments.
NoRequest == [number |-> "None", pid |-> None, ev |-> NoEv, req |-> "None",
              dst |-> None, status |-> 0]

\* The record of what has happened so far: the messages pushed into a mailbox
\* (Mailbox::send) and those taken out of one (Mailbox::receive), the injector
\* and the result of the injection of each sequence number, and the sequence
\* numbers of the interrupt and scheduling events that wait has returned.
NoHistory ==
    [sent |-> <<>>, received |-> <<>>, injected |-> <<>>, delivered |-> <<>>]
\* An injector has set nevents to n.
Inject(h, n, op, ret, was) ==
    IF n = was THEN h
    ELSE [h EXCEPT !.injected = Append(@, [op |-> op, ret |-> ret])]
\* Mailbox::send has pushed message.
Post(h, message) == [h EXCEPT !.sent = Append(@, message)]
\* try_wait has returned msg, built from the descriptor of sequence seq.
Return(h, msg, seq) ==
    CASE msg.message_type \in {"Interrupt", "SchedulingEvent"} ->
            [h EXCEPT !.delivered = Append(@, seq)]
      [] msg.message_type = "Ipc" -> [h EXCEPT !.received = Append(@, msg)]
      [] OTHER -> h


\* --------------------------------------------------------------- condvar
\* Condvar::notify_process on the shared wait condvar: a process blocked in
\* wait is made ready to poll again.
notify_process(ps, pid) ==
    IF ps[pid] = "blocked" THEN [ps EXCEPT ![pid] = "woken"] ELSE ps

\* ------------------------------------------------------------- messages
\* Message::default
MessageDefault ==
    [source |-> KERNEL, destination |-> KERNEL, message_type |-> "Ipc",
     status |-> 0, payload |-> <<>>]

\* Message::from(EventInformation): the information is encoded at the start
\* of the payload.
MessageFromInfo(info) == [MessageDefault EXCEPT !.payload = info]

EventDescriptor(seq, ev) == [seq |-> seq, ev |-> ev]

\* ----------------------------------------------------------------- wait
\* The lowest index of mask whose queue is not empty (Idx itself if none).
Ready(mask, queues) == {i \in mask : queues[i] # <<>>}
Lowest(S) == CHOOSE i \in S : \A j \in S : i <= j

WaitRes(msg, seq, pi, pe, ps, mb) ==
    [msg |-> msg, seq |-> seq, pi |-> pi, pe |-> pe, ps |-> ps, mb |-> mb]

\* try_recv that leaves the message in the mailbox.
try_recv_peek(pid, pi, pe, ps, mb) ==
    IF mb[pid] # <<>>
    THEN WaitRes(Head(mb[pid]), 0, pi, pe, ps, mb)
    ELSE WaitRes(NoMsg, 0, pi, pe, ps, mb)

\* Mailbox::receive through ProcessManager::try_recv, the last step of
\* try_wait.
try_recv(pid, pi, pe, ps, mb) ==
    IF mb[pid] # <<>>
    THEN WaitRes(Head(mb[pid]), 0, pi, pe, ps, [mb EXCEPT ![pid] = Tail(@)])
    ELSE WaitRes(NoMsg, 0, pi, pe, ps, mb)

\* try_wait, interrupt class: pop the head descriptor of the lowest ready
\* queue.
try_wait_interrupt(pid, interrupts, pi, pe, ps, mb) ==
    LET idx == Lowest(Ready(interrupts, pi))
        message == [MessageDefault EXCEPT !.source = KERNEL,
                                          !.destination = pid,
                                          !.message_type = "Interrupt"]
    IN  WaitRes(message, Head(pi[idx]).seq,
                [pi EXCEPT ![idx] = Tail(@)], pe, ps, mb)

\* try_wait_exception with the pid of the receiver in place of the pid of the
\* faulting process.
try_wait_exception_receiver(pid, exceptions, pi, pe, ps, mb) ==
    LET idx == Lowest(Ready(exceptions, pe))
        entry == Head(pe[idx])
        info == [id |-> entry.desc, pid |-> pid,
                 number |-> entry.info.num, code |-> entry.info.code,
                 address |-> entry.info.addr,
                 instruction |-> entry.info.instruction]
        message == [MessageFromInfo(info) EXCEPT
                        !.destination = pid, !.message_type = "Exception"]
    IN  WaitRes(message, entry.desc.seq, pi,
                [pe EXCEPT ![idx] = Append(Tail(@), entry)], ps, mb)

\* try_wait_exception that leaves the entry at the head of the queue.
try_wait_exception_front(pid, exceptions, pi, pe, ps, mb) ==
    LET idx == Lowest(Ready(exceptions, pe))
        entry == Head(pe[idx])
        info == [id |-> entry.desc, pid |-> entry.pid,
                 number |-> entry.info.num, code |-> entry.info.code,
                 address |-> entry.info.addr,
                 instruction |-> entry.info.instruction]
        message == [MessageFromInfo(info) EXCEPT
                        !.destination = pid, !.message_type = "Exception"]
    IN  WaitRes(message, entry.desc.seq, pi, pe, ps, mb)

\* try_wait_exception that does not push the entry back.
try_wait_exception_pop(pid, exceptions, pi, pe, ps, mb) ==
    LET idx == Lowest(Ready(exceptions, pe))
        entry == Head(pe[idx])
        info == [id |-> entry.desc, pid |-> entry.pid,
                 number |-> entry.info.num, code |-> entry.info.code,
                 address |-> entry.info.addr,
                 instruction |-> entry.info.instruction]
        message == [MessageFromInfo(info) EXCEPT
                        !.destination = pid, !.message_type = "Exception"]
    IN  WaitRes(message, entry.desc.seq, pi,
                [pe EXCEPT ![idx] = Tail(@)], ps, mb)

\* try_wait, exception class: pop the head entry, build the message from it
\* and push the entry back at the tail.
try_wait_exception(pid, exceptions, pi, pe, ps, mb) ==
    LET idx == Lowest(Ready(exceptions, pe))
        entry == Head(pe[idx])
        info == [id |-> entry.desc, pid |-> entry.pid,
                 number |-> entry.info.num, code |-> entry.info.code,
                 address |-> entry.info.addr,
                 instruction |-> entry.info.instruction]
        message == [MessageFromInfo(info) EXCEPT
                        !.destination = pid, !.message_type = "Exception"]
    IN  WaitRes(message, entry.desc.seq, pi,
                [pe EXCEPT ![idx] = Append(Tail(@), entry)], ps, mb)

\* The number of a ProcessIdentifier (u32).
PidNumber(pid) ==
    CASE pid = KERNEL -> 0
      [] pid = "PROCD" -> 1
      [] pid = "A" -> 2
      [] pid = "B" -> 3
\* The four bytes of a 32-bit integer in the native order of x86, a negative
\* i32 in two's complement.
Bytes4(n) ==
    <<n % 256, (n \div 256) % 256, (n \div 65536) % 256,
      (n \div 16777216) % 256>>
\* ProcessTerminationInfo::to_ne_bytes: the pid (u32), then the status (i32).
to_ne_bytes(info) == Bytes4(PidNumber(info.pid)) \o Bytes4(info.status)
\* Message::PAYLOAD_SIZE
PAYLOAD_SIZE == 64
ZeroPayload == [i \in 1 .. PAYLOAD_SIZE |-> 0]
\* payload[0..n].copy_from_slice(bytes) on a zeroed payload.
copy_from_slice(bytes) ==
    [i \in 1 .. PAYLOAD_SIZE |-> IF i <= Len(bytes) THEN bytes[i] ELSE 0]

\* try_wait_scheduling with the termination record left out of the payload.
try_wait_scheduling_zeroed(pid, scheduling, pi, pe, ps, mb) ==
    LET idx == Lowest(Ready(scheduling, ps))
        entry == Head(ps[idx])
        message == [source |-> KERNEL, destination |-> pid,
                    message_type |-> "SchedulingEvent", status |-> 0,
                    payload |-> ZeroPayload]
    IN  WaitRes(message, entry.desc.seq, pi, pe,
                [ps EXCEPT ![idx] = Tail(@)], mb)

\* try_wait, scheduling class: pop the head entry; the payload starts with
\* the termination record.
try_wait_scheduling(pid, scheduling, pi, pe, ps, mb) ==
    LET idx == Lowest(Ready(scheduling, ps))
        entry == Head(ps[idx])
        message == [source |-> KERNEL, destination |-> pid,
                    message_type |-> "SchedulingEvent", status |-> 0,
                    payload |-> copy_from_slice(to_ne_bytes(entry.info))]
    IN  WaitRes(message, entry.desc.seq, pi, pe,
                [ps EXCEPT ![idx] = Tail(@)], mb)

\* EventManagerInner::try_wait: the classes are tried in the cyclic order that
\* starts at nevents mod NUMBER_EVENTS, then the mailbox.
NUMBER_EVENTS == 3
RECURSIVE try_wait_from(_, _, _, _, _, _, _, _, _, _)
try_wait_from(i, n, pid, interrupts, exceptions, scheduling, pi, pe, ps, mb) ==
    IF i = NUMBER_EVENTS
    THEN try_recv(pid, pi, pe, ps, mb)
    ELSE LET c == (n + i) % NUMBER_EVENTS
         IN  IF c = 0 /\ Ready(interrupts, pi) # {}
             THEN try_wait_interrupt(pid, interrupts, pi, pe, ps, mb)
             ELSE IF c = 1 /\ Ready(exceptions, pe) # {}
             THEN try_wait_exception(pid, exceptions, pi, pe, ps, mb)
             ELSE IF c = 2 /\ Ready(scheduling, ps) # {}
             THEN try_wait_scheduling(pid, scheduling, pi, pe, ps, mb)
             ELSE try_wait_from(i + 1, n, pid, interrupts, exceptions,
                                scheduling, pi, pe, ps, mb)

\* try_wait without the rotation: the classes are tried from the interrupts.
try_wait_unrotated(pid, interrupts, exceptions, scheduling) ==
    try_wait_from(0, 0, pid, interrupts, exceptions, scheduling,
                  pending_interrupts, pending_exceptions, pending_scheduling,
                  mailbox)

try_wait(pid, interrupts, exceptions, scheduling) ==
    try_wait_from(0, nevents, pid, interrupts, exceptions, scheduling,
                  pending_interrupts, pending_exceptions, pending_scheduling,
                  mailbox)

\* EventManager::wait, the masks of the events the process owns.
OwnedMask(own, pid) == {i \in DOMAIN own : own[i] = pid}

\* ------------------------------------------------------------ injection
RECURSIVE trailing_zeros(_)
trailing_zeros(n) == IF n % 2 = 1 THEN 0 ELSE 1 + trailing_zeros(n \div 2)

InjRes(ret, n, q, st) == [ret |-> ret, n |-> n, q |-> q, st |-> st]

\* EventManagerInner::wakeup_interrupt
wakeup_interrupt(interrupts) ==
    IF interrupt_capable
    THEN InjRes("OperationNotSupported", nevents, pending_interrupts, pstate)
    ELSE LET n == nevents + 1
             idx == trailing_zeros(interrupts)
             eventid == EventDescriptor(n, [cls |-> "Interrupt", idx |-> idx])
             q == [pending_interrupts EXCEPT ![idx] = Append(@, eventid)]
         IN  IF interrupt_ownership[idx] = None
             THEN InjRes("NoSuchProcess", n, q, pstate)
             ELSE InjRes("Ok", n, q,
                         notify_process(pstate, interrupt_ownership[idx]))

\* wakeup_exception that does not increment nevents.
wakeup_exception_same_sequence(exceptions, pid, info) ==
    LET n == nevents
        idx == trailing_zeros(exceptions)
        eventid == EventDescriptor(n, [cls |-> "Exception", idx |-> idx])
        entry == [desc |-> eventid, pid |-> pid, info |-> info, resume |-> n]
        q == [pending_exceptions EXCEPT ![idx] = Append(@, entry)]
    IN  IF exception_ownership[idx] = None
        THEN InjRes("Panic", n, q, pstate)
        ELSE InjRes("Ok", n, q,
                    notify_process(pstate, exception_ownership[idx]))

\* EventManagerInner::wakeup_exception; ret is Panic where the code reaches
\* unimplemented!().
wakeup_exception(exceptions, pid, info) ==
    LET n == nevents + 1
        idx == trailing_zeros(exceptions)
        eventid == EventDescriptor(n, [cls |-> "Exception", idx |-> idx])
        entry == [desc |-> eventid, pid |-> pid, info |-> info, resume |-> n]
        q == [pending_exceptions EXCEPT ![idx] = Append(@, entry)]
    IN  IF exception_ownership[idx] = None
        THEN InjRes("Panic", n, q, pstate)
        ELSE InjRes("Ok", n, q,
                    notify_process(pstate, exception_ownership[idx]))

\* notify_process_termination that looks for the owner before it pushes the
\* entry.
notify_process_termination_owner_first(info) ==
    LET n == nevents + 1
        eventid == EventDescriptor(n, [cls |-> "Scheduling",
                                       idx |-> ProcessTermination])
        q == [pending_scheduling EXCEPT
                 ![ProcessTermination] = Append(@, [desc |-> eventid,
                                                    info |-> info])]
    IN  IF scheduling_ownership[ProcessTermination] = None
        THEN InjRes("NoSuchProcess", n, pending_scheduling, pstate)
        ELSE InjRes("Ok", n, q,
                    notify_process(pstate,
                                   scheduling_ownership[ProcessTermination]))

\* EventManagerInner::notify_process_termination
notify_process_termination(info) ==
    LET n == nevents + 1
        eventid == EventDescriptor(n, [cls |-> "Scheduling",
                                       idx |-> ProcessTermination])
        q == [pending_scheduling EXCEPT
                 ![ProcessTermination] = Append(@, [desc |-> eventid,
                                                    info |-> info])]
    IN  IF scheduling_ownership[ProcessTermination] = None
        THEN InjRes("NoSuchProcess", n, q, pstate)
        ELSE InjRes("Ok", n, q,
                    notify_process(pstate,
                                   scheduling_ownership[ProcessTermination]))

\* --------------------------------------------------------------- resume
\* Positions of the entries of a queue that is_pending_exception accepts: the
\* closure compares the event of the descriptor only.
is_pending_exception(evdesc, ev) ==
    evdesc.ev.cls = "Exception" /\ evdesc.ev = ev
Positions(q, ev) == {k \in 1 .. Len(q) : is_pending_exception(q[k].desc, ev)}
Remove(q, k) == SubSeq(q, 1, k - 1) \o SubSeq(q, k + 1, Len(q))

\* EventManagerInner::resume_exception; removed is the entry taken out of the
\* queue (NoEntry if none), Panic as in wakeup_exception.
NoEntry == [desc |-> EventDescriptor(0, NoEv), pid |-> None, resume |-> 0]
ResumeRes(ret, q, removed) == [ret |-> ret, q |-> q, removed |-> removed]
resume_exception(ev) ==
    LET idx == ev.idx
        q == pending_exceptions[idx]
    IN  IF exception_ownership[idx] = None
        THEN ResumeRes("Panic", pending_exceptions, NoEntry)
        ELSE IF Positions(q, ev) # {}
        THEN LET entry == Lowest(Positions(q, ev))
             IN  ResumeRes("Ok",
                           [pending_exceptions EXCEPT ![idx] = Remove(q, entry)],
                           [desc |-> q[entry].desc, pid |-> q[entry].pid,
                            resume |-> q[entry].resume])
        ELSE ResumeRes("Ok", pending_exceptions, NoEntry)

\* ----------------------------------------------------------------- init
Init ==
    /\ initialized = FALSE
    /\ interrupt_capable = FALSE
    /\ nevents = 0
    /\ interrupt_ownership = [i \in Idx |-> None]
    /\ pending_interrupts = [i \in Idx |-> <<>>]
    /\ exception_ownership = [i \in Idx |-> None]
    /\ pending_exceptions = [i \in Idx |-> <<>>]
    /\ scheduling_ownership = [i \in SchedIdx |-> None]
    /\ pending_scheduling = [i \in SchedIdx |-> <<>>]
    /\ capabilities =
         [p \in Pids |->
            CASE p = "PROCD" -> {"InterruptControl", "ExceptionControl",
                                 "ProcessManagement"}
              [] p = "A" -> {"ExceptionControl", "ProcessManagement"}
              [] p = "B" -> {"InterruptControl"}]
    /\ mailbox = [p \in Pids |-> <<>>]
    /\ pstate = [p \in Pids |-> "running"]
    /\ wmask = [p \in Pids |-> NoMask]
    /\ parked_on = [p \in Pids |-> 0]
    /\ handles = EmptyBag
    /\ panicked = FALSE
    /\ zombies = {}
    /\ dispatcher = "loop"
    /\ borrowed = FALSE
    /\ scoreboard = [request |-> NoRequest, taken |-> 0]
    /\ pc = "handle"
    /\ reply = "None"
    /\ history = NoHistory
    /\ last = Op("none", None, NoEv, "None", "Ok", NoMsg, 0)

\* init: the manager is created with empty tables; it is interrupt capable
\* exactly when the HAL has an interrupt manager.
init(intman) ==
    /\ ~initialized
    /\ initialized' = TRUE
    /\ interrupt_capable' = intman
    /\ nevents' = 0
    /\ interrupt_ownership' = [i \in Idx |-> None]
    /\ pending_interrupts' = [i \in Idx |-> <<>>]
    /\ exception_ownership' = [i \in Idx |-> None]
    /\ pending_exceptions' = [i \in Idx |-> <<>>]
    /\ scheduling_ownership' = [i \in SchedIdx |-> None]
    /\ pending_scheduling' = [i \in SchedIdx |-> <<>>]
    /\ last' = Op("init", None, NoEv, "None", "Ok", NoMsg, 0)
    /\ UNCHANGED <<dispvars, capabilities, mailbox, procvars, handles,
                   panicked>>
    /\ UNCHANGED auxvars

\* Access without the test for a borrow that is held.
Access_unchecked ==
    IF ~initialized THEN "TryAgain"
    ELSE "Ok"

\* Access without the test for a manager that is not initialized.
Access_uninitialized ==
    IF borrowed THEN "PermissionDenied"
    ELSE "Ok"

\* EventManager::get or get_mut, then try_borrow_mut: the error that keeps an
\* operation off the manager, "Ok" when there is none.
Access ==
    IF ~initialized THEN "TryAgain"
    ELSE IF borrowed THEN "PermissionDenied"
    ELSE "Ok"

Running == initialized /\ ~panicked
Live == Running /\ Access = "Ok"

\* RefCell::try_borrow_mut succeeds for an operation of the manager, which is
\* preempted while it holds the RefMut.
BorrowMut ==
    /\ Live
    /\ borrowed' = TRUE
    /\ last' = Op("try_borrow_mut", None, NoEv, "None", "Ok", NoMsg, 0)
    /\ UNCHANGED <<emvars, capabilities, mailbox, procvars, handles, panicked,
                   dispvars, loopvars, history>>

\* The operation that holds the RefMut ends: the RefMut is dropped.
DropRefMut ==
    /\ Running
    /\ borrowed
    /\ borrowed' = FALSE
    /\ last' = Op("drop RefMut", None, NoEv, "None", "Ok", NoMsg, 0)
    /\ UNCHANGED <<emvars, capabilities, mailbox, procvars, handles, panicked,
                   dispvars, loopvars, history>>

\* An operation that ends on the error of Access and leaves the manager alone.
Refused(op, pid, ev, req, seq) ==
    /\ ~panicked
    /\ Access # "Ok"
    /\ last' = Op(op, pid, ev, req, Access, NoMsg, seq)
    /\ UNCHANGED <<emvars, capabilities, mailbox, panicked, dispvars, auxvars>>

\* EventManager::evctrl called by a running process.
EvCtrl(pid, ev, req) ==
    /\ ~panicked
    /\ IF Access = "Ok"
       THEN /\ dispatcher = "loop"
            /\ pstate[pid] = "running"
            /\ LET r == evctrl(pid, ev, req)
                   newHandle == r.ret = "Ok" /\ req = "Register"
               IN  /\ newHandle => BagCardinality(handles) < MaxHandles
                   /\ interrupt_ownership' = r.io
                   /\ exception_ownership' = r.eo
                   /\ scheduling_ownership' = r.so
                   /\ handles' =
                        IF newHandle
                        THEN handles (+) SetToBag({Handle(ev, pid)})
                        ELSE handles
                   /\ last' = Op("evctrl", pid, ev, req, r.ret, NoMsg, 0)
            /\ UNCHANGED <<dispvars, initialized, interrupt_capable, nevents, pendvars,
                           capabilities, mailbox, procvars, panicked>>
            /\ UNCHANGED auxvars
       ELSE /\ dispatcher = "loop"
            /\ pstate[pid] = "running"
            /\ Refused("evctrl", pid, ev, req, 0)
            /\ UNCHANGED <<procvars, handles>>

\* Drop for EventOwnership: an Unregister without pid on the handle's event;
\* a failure is logged only.
DropHandle(h) ==
    /\ ~panicked
    /\ IF Access = "Ok"
       THEN /\ BagIn(h, handles)
            /\ LET r == do_evctrl(None, h.ev, "Unregister")
               IN  /\ interrupt_ownership' = r.io
                   /\ exception_ownership' = r.eo
                   /\ scheduling_ownership' = r.so
                   /\ last' = Op("drop", None, h.ev, "Unregister", r.ret,
                                 NoMsg, 0)
            /\ handles' = handles (-) SetToBag({h})
            /\ UNCHANGED <<dispvars, initialized, interrupt_capable, nevents, pendvars,
                           capabilities, mailbox, procvars, panicked>>
            /\ UNCHANGED auxvars
       ELSE /\ BagIn(h, handles)
            /\ Refused("drop", None, h.ev, "Unregister", 0)
            /\ handles' = handles (-) SetToBag({h})
            /\ UNCHANGED procvars

\* Mutant of Wait: the RefMut is still held when the process blocks on the
\* condvar.
Wait_holding_borrow(pid) ==
    /\ ~panicked
    /\ IF Access = "Ok"
       THEN /\ pstate[pid] = "running"
            /\ LET interrupts == OwnedMask(interrupt_ownership, pid)
                   exceptions == OwnedMask(exception_ownership, pid)
                   scheduling == OwnedMask(scheduling_ownership, pid)
                   r == try_wait(pid, interrupts, exceptions, scheduling)
               IN  /\ pending_interrupts' = r.pi
                   /\ pending_exceptions' = r.pe
                   /\ pending_scheduling' = r.ps
                   /\ mailbox' = r.mb
                   /\ wmask' = IF r.msg = NoMsg
                               THEN [wmask EXCEPT ![pid] = [I |-> interrupts,
                                                            X |-> exceptions,
                                                            S |-> scheduling]]
                               ELSE wmask
                   /\ pstate' = IF r.msg = NoMsg
                                THEN [pstate EXCEPT ![pid] = "blocked"]
                                ELSE pstate
                   /\ last' = Op("wait", pid, NoEv, "None",
                                 IF r.msg = NoMsg THEN "Blocked" ELSE "Ok",
                                 r.msg, r.seq)
                   /\ history' = Return(history, r.msg, r.seq)
                   /\ borrowed' = (r.msg = NoMsg)
            /\ UNCHANGED <<dispvars, initialized, interrupt_capable, nevents, ownvars,
                           capabilities, parked_on, handles, panicked>>
            /\ UNCHANGED loopvars
       ELSE /\ pstate[pid] = "running"
            /\ Refused("wait", pid, NoEv, "None", 0)
            /\ UNCHANGED <<procvars, handles>>

\* EventManager::wait up to its first suspension: the masks are computed, then
\* try_wait either yields a message or the process blocks on the condvar.
Wait(pid) ==
    /\ ~panicked
    /\ IF Access = "Ok"
       THEN /\ pstate[pid] = "running"
            /\ LET interrupts == OwnedMask(interrupt_ownership, pid)
                   exceptions == OwnedMask(exception_ownership, pid)
                   scheduling == OwnedMask(scheduling_ownership, pid)
                   r == try_wait(pid, interrupts, exceptions, scheduling)
               IN  /\ pending_interrupts' = r.pi
                   /\ pending_exceptions' = r.pe
                   /\ pending_scheduling' = r.ps
                   /\ mailbox' = r.mb
                   /\ wmask' = IF r.msg = NoMsg
                               THEN [wmask EXCEPT ![pid] = [I |-> interrupts,
                                                            X |-> exceptions,
                                                            S |-> scheduling]]
                               ELSE wmask
                   /\ pstate' = IF r.msg = NoMsg
                                THEN [pstate EXCEPT ![pid] = "blocked"]
                                ELSE pstate
                   /\ last' = Op("wait", pid, NoEv, "None",
                                 IF r.msg = NoMsg THEN "Blocked" ELSE "Ok",
                                 r.msg, r.seq)
                   /\ history' = Return(history, r.msg, r.seq)
            /\ UNCHANGED <<dispvars, initialized, interrupt_capable, nevents, ownvars,
                           capabilities, parked_on, handles, panicked>>
            /\ UNCHANGED <<borrowed, loopvars>>
       ELSE /\ pstate[pid] = "running"
            /\ Refused("wait", pid, NoEv, "None", 0)
            /\ UNCHANGED <<procvars, handles>>

\* EventManager::wait after a wakeup: try_wait is polled again with the masks
\* computed at entry.
WaitRetry(pid) ==
    /\ ~panicked
    /\ IF Access = "Ok"
       THEN /\ pstate[pid] = "woken"
            /\ LET r == try_wait(pid, wmask[pid].I, wmask[pid].X, wmask[pid].S)
               IN  /\ pending_interrupts' = r.pi
                   /\ pending_exceptions' = r.pe
                   /\ pending_scheduling' = r.ps
                   /\ mailbox' = r.mb
                   /\ pstate' = [pstate EXCEPT ![pid] = IF r.msg = NoMsg
                                                        THEN "blocked"
                                                        ELSE "running"]
                   /\ wmask' = IF r.msg = NoMsg
                               THEN wmask
                               ELSE [wmask EXCEPT ![pid] = NoMask]
                   /\ last' = Op("wait", pid, NoEv, "None",
                                 IF r.msg = NoMsg THEN "Blocked" ELSE "Ok",
                                 r.msg, r.seq)
                   /\ history' = Return(history, r.msg, r.seq)
            /\ UNCHANGED <<dispvars, initialized, interrupt_capable, nevents, ownvars,
                           capabilities, parked_on, handles, panicked>>
            /\ UNCHANGED <<borrowed, loopvars>>
       ELSE /\ pstate[pid] = "woken"
            /\ Refused("wait", pid, NoEv, "None", 0)
            /\ pstate' = [pstate EXCEPT ![pid] = "running"]
            /\ wmask' = [wmask EXCEPT ![pid] = NoMask]
            /\ UNCHANGED <<parked_on, handles>>

\* interrupt_handler: registered by init only when the HAL has an interrupt
\* manager; the error of wakeup_interrupt is logged.
interrupt_handler(intnum) ==
    /\ ~panicked
    /\ IF Access = "Ok"
       THEN /\ interrupt_capable
            /\ LET r == wakeup_interrupt(2 ^ intnum)
               IN  /\ r.n <= MaxEvents
                   /\ nevents' = r.n
                   /\ pending_interrupts' = r.q
                   /\ pstate' = r.st
                   /\ last' = Op("wakeup_interrupt", None,
                                 [cls |-> "Interrupt", idx |-> intnum], "None",
                                 r.ret, NoMsg, r.n)
                   /\ history' = Inject(history, r.n, "wakeup_interrupt",
                                        r.ret, nevents)
            /\ UNCHANGED <<dispvars, initialized, interrupt_capable, ownvars,
                           pending_exceptions, pending_scheduling,
                           capabilities, mailbox, wmask, parked_on, handles, panicked>>
            /\ UNCHANGED <<borrowed, loopvars>>
       ELSE /\ interrupt_capable
            /\ Refused("wakeup_interrupt", None,
                    [cls |-> "Interrupt", idx |-> intnum], "None", 0)
            /\ UNCHANGED <<procvars, handles>>

\* exception_handler: the running process pid faults on vector num; after
\* wakeup_exception it parks on the returned ResumeHandle.
exception_handler(pid, num, fault) ==
    /\ ~panicked
    /\ IF Access = "Ok"
       THEN /\ pstate[pid] = "running"
            /\ LET info == [num |-> num, code |-> fault.code, addr |-> fault.addr,
                            instruction |-> fault.instruction]
                   r == wakeup_exception(2 ^ num, pid, info)
               IN  /\ r.n <= MaxEvents
                   /\ nevents' = r.n
                   /\ pending_exceptions' = r.q
                   /\ panicked' = (r.ret = "Panic")
                   /\ pstate' = IF r.ret = "Ok"
                                THEN [r.st EXCEPT ![pid] = "parked"]
                                ELSE r.st
                   /\ parked_on' = IF r.ret = "Ok"
                                   THEN [parked_on EXCEPT ![pid] = r.n]
                                   ELSE parked_on
                   /\ last' = Op("wakeup_exception", pid,
                                 [cls |-> "Exception", idx |-> num], "None",
                                 r.ret, NoMsg, r.n)
                   /\ history' = Inject(history, r.n, "wakeup_exception",
                                        r.ret, nevents)
            /\ UNCHANGED <<dispvars, initialized, interrupt_capable, ownvars,
                           pending_interrupts, pending_scheduling,
                           capabilities, mailbox, wmask, handles>>
            /\ UNCHANGED <<borrowed, loopvars>>
       ELSE /\ initialized
            /\ pstate[pid] = "running"
            /\ Refused("wakeup_exception", pid,
                    [cls |-> "Exception", idx |-> num], "None", 0)
            /\ UNCHANGED <<procvars, handles>>

\* EventManager::resume called by a running process; the notification of the
\* ResumeHandle of the removed entry unparks the process parked on it.
Resume(evdesc) ==
    /\ ~panicked
    /\ \E pid \in Pids : pstate[pid] = "running"
    /\ IF evdesc.ev.cls # "Exception"
       THEN /\ last' = Op("resume", None, evdesc.ev, "None", "Ok", NoMsg,
                          evdesc.seq)
            /\ UNCHANGED <<emvars, capabilities, mailbox, procvars, handles,
                           panicked, dispvars, auxvars>>
       ELSE IF Access = "Ok"
       THEN LET r == resume_exception(evdesc.ev)
                woken == {p \in Pids : /\ pstate[p] = "parked"
                                       /\ r.removed.resume # 0
                                       /\ parked_on[p] = r.removed.resume}
            IN  /\ pending_exceptions' = r.q
                /\ panicked' = (r.ret = "Panic")
                /\ pstate' = [p \in Pids |-> IF p \in woken THEN "running"
                                             ELSE pstate[p]]
                /\ parked_on' = [p \in Pids |-> IF p \in woken THEN 0
                                                ELSE parked_on[p]]
                /\ last' = Op("resume", None, evdesc.ev, "None", r.ret, NoMsg,
                              evdesc.seq)
                /\ UNCHANGED <<dispvars, initialized, interrupt_capable,
                               nevents, ownvars, pending_interrupts,
                               pending_scheduling, capabilities, mailbox,
                               wmask, handles, auxvars>>
       ELSE /\ Refused("resume", None, evdesc.ev, "None", evdesc.seq)
            /\ UNCHANGED <<procvars, handles>>

\* EventManager::post_message for a Send of the running process src: the
\* message is pushed into the mailbox of dst (Mailbox::send) and dst is
\* notified.
PostMessage(src, dst) ==
    /\ ~panicked
    /\ IF Access = "Ok"
       THEN /\ dispatcher = "loop"
            /\ pstate[src] = "running"
            /\ Len(mailbox[dst]) < MaxMailbox
            /\ Len(history.sent) < MaxSent
            /\ LET message == [MessageDefault EXCEPT !.source = src,
                                                     !.destination = dst]
               IN  /\ mailbox' = [mailbox EXCEPT ![dst] = Append(@, message)]
                   /\ last' = Op("post_message", src, NoEv, "None", "Ok",
                                 message, 0)
                   /\ history' = Post(history, message)
            /\ pstate' = notify_process(pstate, dst)
            /\ UNCHANGED <<dispvars, emvars, capabilities, wmask, parked_on, handles,
                           panicked>>
            /\ UNCHANGED <<borrowed, loopvars>>
       ELSE /\ dispatcher = "loop"
            /\ pstate[src] = "running"
            /\ Refused("post_message", src, NoEv, "None", 0)
            /\ UNCHANGED <<procvars, handles>>

\* kcall_handler, the reaping of a terminated process other than PROCD: its
\* termination is published with notify_process_termination.
Reap(pid, status) ==
    /\ ~panicked
    /\ IF Access = "Ok"
       THEN /\ dispatcher = "loop"
            /\ pid # "PROCD"
            /\ pstate[pid] = "running"
            /\ LET r == notify_process_termination([pid |-> pid, status |-> status])
               IN  /\ r.n <= MaxEvents
                   /\ nevents' = r.n
                   /\ pending_scheduling' = r.q
                   /\ pstate' = [r.st EXCEPT ![pid] = "dead"]
                   /\ last' = Op("notify_process_termination", pid,
                                 [cls |-> "Scheduling", idx |-> ProcessTermination],
                                 "None", r.ret, NoMsg, r.n)
                   /\ history' = Inject(history, r.n,
                                        "notify_process_termination", r.ret,
                                        nevents)
            /\ UNCHANGED <<dispvars, initialized, interrupt_capable, ownvars,
                           pending_interrupts, pending_exceptions,
                           capabilities, mailbox, wmask, parked_on, handles, panicked>>
            /\ UNCHANGED <<borrowed, loopvars>>
       ELSE /\ dispatcher = "loop"
            /\ pid # "PROCD"
            /\ pstate[pid] = "running"
            /\ Refused("notify_process_termination", pid,
                    [cls |-> "Scheduling", idx |-> ProcessTermination], "None", 0)
            /\ pstate' = [pstate EXCEPT ![pid] = "dead"]
            /\ UNCHANGED <<wmask, parked_on, handles>>

\* pm::terminate, served by kcall_handler: the running process pid becomes a
\* zombie with its exit status.
Terminate(pid, status) ==
    /\ Running
    /\ dispatcher = "loop"
    /\ pstate[pid] = "running"
    /\ pstate' = [pstate EXCEPT ![pid] = "zombie"]
    /\ zombies' = zombies \cup {[pid |-> pid, status |-> status]}
    /\ last' = Op("terminate", pid, NoEv, "None", "Ok", NoMsg, 0)
    /\ UNCHANGED <<emvars, capabilities, mailbox, wmask, parked_on, handles,
                   panicked, dispatcher>>
    /\ UNCHANGED auxvars

\* Harvest without the test for PROCD: every termination is published.
Harvest_publish_all(pid, status) ==
    /\ Live
    /\ dispatcher = "loop"
    /\ [pid |-> pid, status |-> status] \in zombies
    /\ zombies' = zombies \ {[pid |-> pid, status |-> status]}
    /\ LET r == notify_process_termination([pid |-> pid, status |-> status])
       IN  /\ r.n <= MaxEvents
           /\ nevents' = r.n
           /\ pending_scheduling' = r.q
           /\ pstate' = [r.st EXCEPT ![pid] = "dead"]
           /\ dispatcher' = dispatcher
           /\ last' = Op("harvest_zombies", pid,
                         [cls |-> "Scheduling", idx |-> ProcessTermination],
                         "None", r.ret, NoMsg, r.n)
           /\ history' = Inject(history, r.n, "notify_process_termination",
                                r.ret, nevents)
    /\ UNCHANGED <<initialized, interrupt_capable, ownvars,
                   pending_interrupts, pending_exceptions,
                   capabilities, mailbox, wmask, parked_on, handles, panicked>>
    /\ UNCHANGED <<borrowed, loopvars>>

\* kcall_handler, the end of one turn of its main loop: harvest_zombies
\* returns the zombie (pid, status); PROCD ends the loop, the termination
\* of any other process is published and a failure of the publication is
\* logged.
harvest_zombies(pid, status) ==
    /\ Running
    /\ dispatcher = "loop"
    /\ [pid |-> pid, status |-> status] \in zombies
    /\ zombies' = zombies \ {[pid |-> pid, status |-> status]}
    /\ IF pid = "PROCD"
       THEN /\ dispatcher' = "drain"
            /\ pstate' = [pstate EXCEPT ![pid] = "dead"]
            /\ last' = Op("harvest_zombies", pid, NoEv, "None", "Break",
                          NoMsg, 0)
            /\ UNCHANGED <<nevents, pending_scheduling, history>>
       ELSE IF Access = "Ok"
       THEN LET r == notify_process_termination([pid |-> pid,
                                                 status |-> status])
            IN  /\ r.n <= MaxEvents
                /\ nevents' = r.n
                /\ pending_scheduling' = r.q
                /\ pstate' = [r.st EXCEPT ![pid] = "dead"]
                /\ dispatcher' = dispatcher
                /\ last' = Op("harvest_zombies", pid,
                              [cls |-> "Scheduling",
                               idx |-> ProcessTermination],
                              "None", r.ret, NoMsg, r.n)
                /\ history' = Inject(history, r.n,
                                     "notify_process_termination", r.ret,
                                     nevents)
       ELSE /\ pstate' = [pstate EXCEPT ![pid] = "dead"]
            /\ dispatcher' = dispatcher
            /\ last' = Op("harvest_zombies", pid,
                          [cls |-> "Scheduling", idx |-> ProcessTermination],
                          "None", Access, NoMsg, 0)
            /\ UNCHANGED <<nevents, pending_scheduling, history>>
    /\ UNCHANGED <<initialized, interrupt_capable, ownvars,
                   pending_interrupts, pending_exceptions,
                   capabilities, mailbox, wmask, parked_on, handles, panicked>>

Harvest(pid, status) ==
    /\ harvest_zombies(pid, status)
    /\ UNCHANGED <<borrowed, loopvars>>

\* kcall_handler after its main loop: the remaining zombies are harvested and
\* logged.
Drain(pid, status) ==
    /\ dispatcher = "drain"
    /\ [pid |-> pid, status |-> status] \in zombies
    /\ zombies' = zombies \ {[pid |-> pid, status |-> status]}
    /\ pstate' = [pstate EXCEPT ![pid] = "dead"]
    /\ last' = Op("drain", pid, NoEv, "None", "Ok", NoMsg, 0)
    /\ UNCHANGED <<emvars, capabilities, mailbox, wmask, parked_on, handles,
                   panicked, dispatcher>>
    /\ UNCHANGED auxvars

\* kcall_handler returns when harvest_zombies finds no zombie, or fails.
Shutdown(failed) ==
    /\ dispatcher = "drain"
    /\ ~failed => zombies = {}
    /\ dispatcher' = "done"
    /\ last' = Op("shutdown", None, NoEv, "None",
                  IF failed THEN "Failed" ELSE "Ok", NoMsg, 0)
    /\ UNCHANGED <<emvars, capabilities, mailbox, procvars, handles,
                   panicked, zombies>>
    /\ UNCHANGED auxvars

\* ------------------------------------------------- try_wait on its own
\* The indices of the interrupt and exception queues that try_wait is given.
WaitIdx == 0 .. NIdx

\* The queues try_wait starts from: an interrupt queue holds up to two
\* descriptors, an exception queue and the termination queue up to one entry;
\* the sequence numbers tell the entries apart.
InterruptQueues(i) ==
    LET d(k) == EventDescriptor(10 * (i + 1) + k,
                                [cls |-> "Interrupt", idx |-> i])
    IN  {<<>>, <<d(1)>>, <<d(1), d(2)>>}
ExceptionQueues(i) ==
    {<<>>,
     <<[desc |-> EventDescriptor(100 + i, [cls |-> "Exception", idx |-> i]),
        pid |-> "B",
        info |-> [num |-> i, code |-> 2, addr |-> 64, instruction |-> 16],
        resume |-> 100 + i]>>}
SchedulingQueues ==
    {<<>>,
     <<[desc |-> EventDescriptor(200, [cls |-> "Scheduling",
                                       idx |-> ProcessTermination]),
        info |-> [pid |-> "B", status |-> 0]]>>}

\* Any state of the queues, of nevents and of the mailbox of A, and any masks
\* for the calls of A, kept in wmask.
InitTryWait ==
    /\ initialized = TRUE
    /\ interrupt_capable = TRUE
    /\ nevents \in 0 .. NUMBER_EVENTS - 1
    /\ interrupt_ownership = [i \in WaitIdx |-> None]
    /\ pending_interrupts \in
          {f \in [WaitIdx -> UNION {InterruptQueues(i) : i \in WaitIdx}] :
              \A i \in WaitIdx : f[i] \in InterruptQueues(i)}
    /\ exception_ownership = [i \in WaitIdx |-> None]
    /\ pending_exceptions \in
          {f \in [WaitIdx -> UNION {ExceptionQueues(i) : i \in WaitIdx}] :
              \A i \in WaitIdx : f[i] \in ExceptionQueues(i)}
    /\ scheduling_ownership = [i \in SchedIdx |-> None]
    /\ pending_scheduling \in [SchedIdx -> SchedulingQueues]
    /\ capabilities = [p \in Pids |-> {}]
    /\ mailbox \in
          {[p \in Pids |-> IF p = "A" THEN b ELSE <<>>] :
              b \in {<<>>, <<[MessageDefault EXCEPT !.source = "B",
                                                    !.destination = "A"]>>}}
    /\ pstate = [p \in Pids |-> "running"]
    /\ wmask \in
          {[p \in Pids |-> IF p = "A" THEN m ELSE NoMask] :
              m \in [I : SUBSET WaitIdx, X : SUBSET WaitIdx,
                     S : SUBSET SchedIdx]}
    /\ parked_on = [p \in Pids |-> 0]
    /\ handles = EmptyBag
    /\ panicked = FALSE
    /\ zombies = {}
    /\ dispatcher = "loop"
    /\ borrowed = FALSE
    /\ scoreboard = [request |-> NoRequest, taken |-> 0]
    /\ pc = "handle"
    /\ reply = "None"
    /\ history = NoHistory
    /\ last = Op("none", None, NoEv, "None", "Ok", NoMsg, 0)

\* EventManagerInner::try_wait called by pid with its masks.
TryWait(pid) ==
    /\ LET r == try_wait(pid, wmask[pid].I, wmask[pid].X, wmask[pid].S)
       IN  /\ pending_interrupts' = r.pi
           /\ pending_exceptions' = r.pe
           /\ pending_scheduling' = r.ps
           /\ mailbox' = r.mb
           /\ last' = Op("try_wait", pid, NoEv, "None",
                         IF r.msg = NoMsg THEN "None" ELSE "Some",
                         r.msg, r.seq)
    /\ UNCHANGED <<initialized, interrupt_capable, nevents, ownvars,
                   capabilities, procvars, handles, panicked, dispvars,
                   auxvars>>

NextTryWait == TryWait("A")

SpecTryWait == InitTryWait /\ [][NextTryWait]_vars

\* -------------------------------------------------------------- mailbox
\* Mailbox::send: push_back on the buffer.
send(buffer, message) == Append(buffer, message)

\* receive that pops the back of the buffer.
receive_back(buffer) ==
    IF buffer = <<>>
    THEN [message |-> NoMsg, buffer |-> buffer]
    ELSE [message |-> buffer[Len(buffer)],
          buffer |-> SubSeq(buffer, 1, Len(buffer) - 1)]

\* Mailbox::receive: pop_front on the buffer, None (NoMsg) when it is empty.
receive(buffer) ==
    IF buffer = <<>>
    THEN [message |-> NoMsg, buffer |-> buffer]
    ELSE [message |-> Head(buffer), buffer |-> Tail(buffer)]

\* The messages sent to the mailbox of A: one per sender.
Letters ==
    {[MessageDefault EXCEPT !.source = p, !.destination = "A"] : p \in Pids}

\* Mailbox::send on the mailbox of A.
MailboxSend(message) ==
    /\ Len(history.sent) < MaxSent
    /\ mailbox' = [mailbox EXCEPT !["A"] = send(@, message)]
    /\ history' = Post(history, message)
    /\ last' = Op("send", message.source, NoEv, "None", "Ok", message, 0)
    /\ UNCHANGED <<emvars, capabilities, procvars, handles, panicked,
                   dispvars, borrowed, loopvars>>

\* Mailbox::receive on the mailbox of A.
MailboxReceive ==
    /\ LET r == receive(mailbox["A"])
       IN  /\ mailbox' = [mailbox EXCEPT !["A"] = r.buffer]
           /\ history' = IF r.message = NoMsg
                         THEN history
                         ELSE [history EXCEPT !.received = Append(@, r.message)]
           /\ last' = Op("receive", "A", NoEv, "None",
                         IF r.message = NoMsg THEN "None" ELSE "Some",
                         r.message, 0)
    /\ UNCHANGED <<emvars, capabilities, procvars, handles, panicked,
                   dispvars, borrowed, loopvars>>

\* ------------------------------------------------------- the main loop
\* The kcall numbers posed to kcall_handler; "Unknown" is a number that is
\* not a KcallNumber, "GetUid" one of the calls served by the process manager.
KcallNumbers ==
    {"GetPid", "GetTid", "GetUid", "Terminate", "EventCtrl", "Send", "Recv",
     "Unknown"}

\* The requests posed: the calls without arguments and a Send to PROCD come
\* from A, event control on the termination event from PROCD and from B, who
\* lacks the capability, and every process may terminate.
KcallRequests ==
    {[NoRequest EXCEPT !.number = n, !.pid = "A"] :
        n \in KcallNumbers \ {"Terminate", "EventCtrl", "Send"}}
    \cup {[NoRequest EXCEPT !.number = "Terminate", !.pid = p] : p \in Pids}
    \cup {[NoRequest EXCEPT !.number = "EventCtrl", !.pid = p, !.req = rq,
                            !.ev = [cls |-> "Scheduling",
                                    idx |-> ProcessTermination]] :
            p \in {"PROCD", "B"}, rq \in Requests}
    \cup {[NoRequest EXCEPT !.number = "Send", !.pid = "A", !.dst = "PROCD"]}

\* A running process deposits a kcall request on the scoreboard.
Kcall(args) ==
    /\ Running
    /\ dispatcher = "loop"
    /\ pstate[args.pid] = "running"
    /\ scoreboard.request = NoRequest
    /\ scoreboard.taken = 0
    /\ scoreboard' = [scoreboard EXCEPT !.request = args]
    /\ last' = Op("kcall", args.pid, args.ev, args.req, "Ok", NoMsg, 0)
    /\ UNCHANGED <<emvars, capabilities, mailbox, procvars, handles, panicked,
                   zombies, dispatcher, borrowed, pc, reply, history>>

\* A kcall that leaves the state of the kernel alone and returns ret.
Unhandled(r) ==
    [ret |-> r, io |-> interrupt_ownership, eo |-> exception_ownership,
     so |-> scheduling_ownership, handles |-> handles, pstate |-> pstate,
     zombies |-> zombies, mailbox |-> mailbox, history |-> history]

\* kcall_handler, the match on KcallNumber::from(args.number): the handler of
\* the call and its return value.
dispatch(args) ==
    CASE args.number \in {"GetPid", "GetTid"} -> Unhandled("InvalidSysCall")
      [] args.number = "GetUid" -> Unhandled("Ok")
      [] args.number = "Terminate" ->
           [Unhandled("Ok") EXCEPT
               !.pstate = [pstate EXCEPT ![args.pid] = "zombie"],
               !.zombies = zombies \cup {[pid |-> args.pid,
                                          status |-> args.status]}]
      [] args.number = "EventCtrl" ->
           IF Access # "Ok"
           THEN Unhandled(Access)
           ELSE LET r == evctrl(args.pid, args.ev, args.req)
                IN  [Unhandled(r.ret) EXCEPT
                        !.io = r.io, !.eo = r.eo, !.so = r.so,
                        !.handles = IF r.ret = "Ok" /\ args.req = "Register"
                                    THEN handles (+)
                                            SetToBag({Handle(args.ev, args.pid)})
                                    ELSE handles]
      [] args.number = "Send" ->
           IF Access # "Ok"
           THEN Unhandled(Access)
           ELSE [Unhandled("Ok") EXCEPT
                    !.mailbox =
                       [mailbox EXCEPT
                           ![args.dst] =
                              Append(@, [MessageDefault EXCEPT
                                            !.source = args.pid,
                                            !.destination = args.dst])],
                    !.pstate = notify_process(pstate, args.dst),
                    !.history = Post(history,
                                     [MessageDefault EXCEPT
                                         !.source = args.pid,
                                         !.destination = args.dst])]
      [] OTHER -> Unhandled("InvalidSysCall")

\* Serve with the reply left out for the calls that no handler serves.
Serve_unanswered ==
    /\ Running
    /\ dispatcher = "loop"
    /\ pc = "handle"
    /\ scoreboard.request # NoRequest
    /\ LET args == scoreboard.request
           r == dispatch(args)
       IN  /\ BagCardinality(r.handles) <= MaxHandles
           /\ \A p \in Pids : Len(r.mailbox[p]) <= MaxMailbox
           /\ Len(r.history.sent) <= MaxSent
           /\ interrupt_ownership' = r.io
           /\ exception_ownership' = r.eo
           /\ scheduling_ownership' = r.so
           /\ handles' = r.handles
           /\ pstate' = r.pstate
           /\ zombies' = r.zombies
           /\ mailbox' = r.mailbox
           /\ history' = r.history
           /\ reply' = r.ret
           /\ pc' = IF r.ret = "InvalidSysCall" THEN "harvest" ELSE "handled"
           /\ scoreboard' = [request |-> NoRequest,
                             taken |-> scoreboard.taken + 1]
           /\ last' = Op("handle", args.pid, args.ev, args.req, r.ret, NoMsg, 0)
    /\ UNCHANGED <<initialized, interrupt_capable, nevents, pendvars,
                   capabilities, wmask, parked_on, panicked, dispatcher,
                   borrowed>>

\* kcall_handler, a turn of the main loop whose scoreboard.handle() yields a
\* request: the request is dispatched and its return value kept for
\* scoreboard.handled.
Serve ==
    /\ Running
    /\ dispatcher = "loop"
    /\ pc = "handle"
    /\ scoreboard.request # NoRequest
    /\ LET args == scoreboard.request
           r == dispatch(args)
       IN  /\ BagCardinality(r.handles) <= MaxHandles
           /\ \A p \in Pids : Len(r.mailbox[p]) <= MaxMailbox
           /\ Len(r.history.sent) <= MaxSent
           /\ interrupt_ownership' = r.io
           /\ exception_ownership' = r.eo
           /\ scheduling_ownership' = r.so
           /\ handles' = r.handles
           /\ pstate' = r.pstate
           /\ zombies' = r.zombies
           /\ mailbox' = r.mailbox
           /\ history' = r.history
           /\ reply' = r.ret
           /\ pc' = "handled"
           /\ scoreboard' = [request |-> NoRequest,
                             taken |-> scoreboard.taken + 1]
           /\ last' = Op("handle", args.pid, args.ev, args.req, r.ret, NoMsg, 0)
    /\ UNCHANGED <<initialized, interrupt_capable, nevents, pendvars,
                   capabilities, wmask, parked_on, panicked, dispatcher,
                   borrowed>>

\* The errors of ScoreBoard::get_mut and scoreboard.handle().
HandleErrors ==
    {"Interrupted", "OperationWouldBlock", "InvalidArgument", "TryAgain"}

\* HandleFails that leaves the main loop on every error but
\* OperationWouldBlock.
HandleFails_break_on_error(e, switched) ==
    /\ Running
    /\ dispatcher = "loop"
    /\ pc = "handle"
    /\ e = "OperationWouldBlock" => scoreboard.request = NoRequest
    /\ e # "OperationWouldBlock" => switched = "Ok"
    /\ dispatcher' = IF e # "OperationWouldBlock" THEN "drain" ELSE dispatcher
    /\ pc' = IF e # "OperationWouldBlock" THEN pc ELSE "harvest"
    /\ last' = Op("handle", None, NoEv,
                  IF e = "OperationWouldBlock" THEN "switch" ELSE "None",
                  e, NoMsg, 0)
    /\ UNCHANGED <<emvars, capabilities, mailbox, procvars, handles, panicked,
                   zombies, borrowed, scoreboard, reply, history>>

\* kcall_handler, a turn of the main loop whose ScoreBoard::get_mut or
\* scoreboard.handle() fails with e: Interrupted leaves the loop,
\* OperationWouldBlock calls ProcessManager::switch (its own failure is
\* logged), any other error is logged.
HandleFails(e, switched) ==
    /\ Running
    /\ dispatcher = "loop"
    /\ pc = "handle"
    /\ e = "OperationWouldBlock" => scoreboard.request = NoRequest
    /\ e # "OperationWouldBlock" => switched = "Ok"
    /\ dispatcher' = IF e = "Interrupted" THEN "drain" ELSE dispatcher
    /\ pc' = IF e = "Interrupted" THEN pc ELSE "harvest"
    /\ last' = Op("handle", None, NoEv,
                  IF e = "OperationWouldBlock" THEN "switch" ELSE "None",
                  e, NoMsg, 0)
    /\ UNCHANGED <<emvars, capabilities, mailbox, procvars, handles, panicked,
                   zombies, borrowed, scoreboard, reply, history>>

\* kcall_handler, scoreboard.handled(ret): the return value goes back to the
\* caller; a failure to signal it is logged.
Handled(signalled) ==
    /\ Running
    /\ dispatcher = "loop"
    /\ pc = "handled"
    /\ scoreboard' = [scoreboard EXCEPT !.taken = @ - 1]
    /\ pc' = "harvest"
    /\ last' = Op("handled", None, NoEv, "None", reply, NoMsg, 0)
    /\ UNCHANGED <<emvars, capabilities, mailbox, procvars, handles, panicked,
                   zombies, dispatcher, borrowed, reply, history>>

\* kcall_handler, the end of a turn: a zombie is harvested.
TurnHarvest(pid, status) ==
    /\ pc = "harvest"
    /\ harvest_zombies(pid, status)
    /\ pc' = "handle"
    /\ UNCHANGED <<borrowed, scoreboard, reply>>

\* kcall_handler, the end of a turn: harvest_zombies finds no zombie, or it
\* fails and the failure is logged.
TurnNoZombie(failed) ==
    /\ Running
    /\ dispatcher = "loop"
    /\ pc = "harvest"
    /\ ~failed => zombies = {}
    /\ pc' = "handle"
    /\ last' = Op("harvest_zombies", None, NoEv, "None",
                  IF failed THEN "Failed" ELSE "Ok", NoMsg, 0)
    /\ UNCHANGED <<emvars, capabilities, mailbox, procvars, handles, panicked,
                   zombies, dispatcher, borrowed, scoreboard, reply, history>>

Descriptors == [seq : 1 .. MaxEvents, ev : Events]

Next ==
    \/ \E intman \in BOOLEAN : init(intman)
    \/ \E pid \in Pids, ev \in Events, req \in Requests : EvCtrl(pid, ev, req)
    \/ \E h \in BagToSet(handles) : DropHandle(h)
    \/ \E pid \in Pids : Wait(pid)
    \/ \E pid \in Pids : WaitRetry(pid)
    \/ \E intnum \in Idx : interrupt_handler(intnum)
    \/ \E pid \in Pids, num \in Idx, fault \in FaultInfos :
          exception_handler(pid, num, fault)
    \/ \E evdesc \in Descriptors : Resume(evdesc)
    \/ \E src \in Pids, dst \in Pids : PostMessage(src, dst)
    \/ \E pid \in Pids, status \in Statuses : Reap(pid, status)
    \/ \E pid \in Pids, status \in Statuses : Terminate(pid, status)
    \/ \E pid \in Pids, status \in Statuses : Harvest(pid, status)
    \/ \E pid \in Pids, status \in Statuses : Drain(pid, status)
    \/ \E failed \in BOOLEAN : Shutdown(failed)
    \/ \E args \in KcallRequests : Kcall(args)
    \/ Serve
    \/ \E e \in HandleErrors, switched \in {"Ok", "Failed"} :
          HandleFails(e, switched)
    \/ \E signalled \in BOOLEAN : Handled(signalled)
    \/ \E pid \in Pids, status \in Statuses : TurnHarvest(pid, status)
    \/ \E failed \in BOOLEAN : TurnNoZombie(failed)
    \/ \E message \in Letters : MailboxSend(message)
    \/ MailboxReceive
    \/ BorrowMut
    \/ DropRefMut

Spec == Init /\ [][Next]_vars

\* The registry alone: no event is injected and no process waits.
NextRegistry ==
    \/ \E intman \in BOOLEAN : init(intman)
    \/ \E pid \in Pids, ev \in Events, req \in Requests : EvCtrl(pid, ev, req)
    \/ \E h \in BagToSet(handles) : DropHandle(h)

SpecRegistry == Init /\ [][NextRegistry]_vars

\* The interrupt path: interrupt events only, with the IPC messages of A as
\* the other source of messages.
InterruptEvents == [cls : {"Interrupt"}, idx : Idx]
NextInterrupt ==
    \/ \E intman \in BOOLEAN : init(intman)
    \/ \E pid \in Pids, ev \in InterruptEvents, req \in Requests :
          EvCtrl(pid, ev, req)
    \/ \E h \in BagToSet(handles) : DropHandle(h)
    \/ \E pid \in Pids : Wait(pid)
    \/ \E pid \in Pids : WaitRetry(pid)
    \/ \E intnum \in Idx : interrupt_handler(intnum)
    \/ \E dst \in Pids \ {"A"} : PostMessage("A", dst)

SpecInterrupt == Init /\ [][NextInterrupt]_vars

\* The exception path: exception and scheduling events.  A is the process
\* that registers and waits, the others may fault, B is the process that
\* terminates.
ExceptionEvents == Events \ InterruptEvents
NextException ==
    \/ \E intman \in BOOLEAN : init(intman)
    \/ \E ev \in ExceptionEvents, req \in Requests : EvCtrl("A", ev, req)
    \/ \E h \in BagToSet(handles) : DropHandle(h)
    \/ Wait("A")
    \/ \E pid \in Pids : WaitRetry(pid)
    \/ \E pid \in Pids \ {"A"}, num \in Idx, fault \in FaultInfos :
          exception_handler(pid, num, fault)
    \/ \E evdesc \in [seq : 1 .. MaxEvents, ev : ExceptionEvents] :
          Resume(evdesc)
    \/ Reap("B", 0)

SpecException == Init /\ [][NextException]_vars

\* The multiplexing of wait: PROCD registers and waits on events of the three
\* classes, B faults and terminates, A sends messages to PROCD.
NextMux ==
    \/ \E intman \in BOOLEAN : init(intman)
    \/ \E ev \in Events, req \in Requests : EvCtrl("PROCD", ev, req)
    \/ \E h \in BagToSet(handles) : DropHandle(h)
    \/ Wait("PROCD")
    \/ WaitRetry("PROCD")
    \/ \E intnum \in Idx : interrupt_handler(intnum)
    \/ \E num \in Idx, fault \in FaultInfos : exception_handler("B", num, fault)
    \/ \E evdesc \in [seq : 1 .. MaxEvents, ev : ExceptionEvents] :
          Resume(evdesc)
    \/ PostMessage("A", "PROCD")
    \/ \E status \in Statuses : Reap("B", status)

SpecMux == Init /\ [][NextMux]_vars

\* The three injection paths together: PROCD owns and waits, IRQs fire, A and
\* B fault, B terminates.
NextInjection ==
    \/ \E intman \in BOOLEAN : init(intman)
    \/ \E ev \in Events : EvCtrl("PROCD", ev, "Register")
    \/ Wait("PROCD")
    \/ WaitRetry("PROCD")
    \/ \E intnum \in Idx : interrupt_handler(intnum)
    \/ \E pid \in {"A", "B"}, num \in Idx, fault \in FaultInfos :
          exception_handler(pid, num, fault)
    \/ \E evdesc \in [seq : 1 .. MaxEvents, ev : ExceptionEvents] :
          Resume(evdesc)
    \/ \E status \in Statuses : Reap("B", status)

SpecInjection == Init /\ [][NextInjection]_vars

\* The dispatcher: processes terminate, kcall_handler harvests them; A and
\* PROCD register and wait on the termination event.
NextDispatcher ==
    \/ \E intman \in BOOLEAN : init(intman)
    \/ \E pid \in {"A", "PROCD"}, req \in Requests :
          EvCtrl(pid, [cls |-> "Scheduling", idx |-> ProcessTermination], req)
    \/ \E h \in BagToSet(handles) : DropHandle(h)
    \/ \E pid \in {"A", "PROCD"} : Wait(pid)
    \/ \E pid \in {"A", "PROCD"} : WaitRetry(pid)
    \/ \E pid \in Pids, status \in Statuses : Terminate(pid, status)
    \/ \E pid \in Pids, status \in Statuses : Harvest(pid, status)
    \/ \E pid \in Pids, status \in Statuses : Drain(pid, status)
    \/ \E failed \in BOOLEAN : Shutdown(failed)

SpecDispatcher == Init /\ [][NextDispatcher]_vars

\* The operations of the manager called before and after init: PROCD
\* registers on the termination event and waits, A sends to PROCD, B is
\* reaped.
NextBoot ==
    \/ \E intman \in BOOLEAN : init(intman)
    \/ \E req \in Requests :
          EvCtrl("PROCD", [cls |-> "Scheduling", idx |-> ProcessTermination],
                 req)
    \/ \E h \in BagToSet(handles) : DropHandle(h)
    \/ Wait("PROCD")
    \/ WaitRetry("PROCD")
    \/ PostMessage("A", "PROCD")
    \/ \E status \in Statuses : Reap("B", status)

SpecBoot == Init /\ [][NextBoot]_vars

\* The operations of the manager attempted while its RefCell is borrowed or
\* free: A registers on the exception, waits and resumes, B faults and is
\* reaped, interrupts arrive and A sends to PROCD.
NextBorrow ==
    \/ \E intman \in BOOLEAN : init(intman)
    \/ BorrowMut
    \/ DropRefMut
    \/ \E ev \in ExceptionEvents, req \in Requests : EvCtrl("A", ev, req)
    \/ \E h \in BagToSet(handles) : DropHandle(h)
    \/ Wait("A")
    \/ WaitRetry("A")
    \/ \E intnum \in Idx : interrupt_handler(intnum)
    \/ \E num \in Idx, fault \in FaultInfos : exception_handler("B", num, fault)
    \/ \E evdesc \in Descriptors : Resume(evdesc)
    \/ PostMessage("A", "PROCD")
    \/ Reap("B", 0)

SpecBorrow == Init /\ [][NextBorrow]_vars

\* The messages B posts in the wakeup scenario.
MaxWakeupSent == 1

\* The wakeups of wait: PROCD and A register on the termination event and
\* wait, B posts messages to them and is reaped.
NextWakeup ==
    \/ init(TRUE)
    \/ \E pid \in {"PROCD", "A"} :
          EvCtrl(pid, [cls |-> "Scheduling", idx |-> ProcessTermination],
                 "Register")
    \/ \E h \in BagToSet(handles) : DropHandle(h)
    \/ \E pid \in {"PROCD", "A"} : Wait(pid)
    \/ \E pid \in {"PROCD", "A"} : WaitRetry(pid)
    \/ \E dst \in {"PROCD", "A"} :
          /\ Len(history.sent) < MaxWakeupSent
          /\ PostMessage("B", dst)
    \/ Reap("B", 0)

SpecWakeup == Init /\ [][NextWakeup]_vars

\* A process that the condvar has woken runs again: it polls try_wait.
SpecWakeupFair ==
    /\ SpecWakeup
    /\ \A pid \in {"PROCD", "A"} : WF_vars(WaitRetry(pid))

\* One Mailbox under any sequence of send and receive.
NextMailbox ==
    \/ \E message \in Letters : MailboxSend(message)
    \/ MailboxReceive

SpecMailbox == Init /\ [][NextMailbox]_vars

\* The main loop of kcall_handler, turn by turn: processes deposit requests
\* on the scoreboard, PROCD waits for the terminations.
NextLoop ==
    \/ \E intman \in BOOLEAN : init(intman)
    \/ \E args \in KcallRequests : Kcall(args)
    \/ Serve
    \/ \E e \in HandleErrors, switched \in {"Ok", "Failed"} :
          HandleFails(e, switched)
    \/ \E signalled \in BOOLEAN : Handled(signalled)
    \/ \E pid \in Pids, status \in Statuses : TurnHarvest(pid, status)
    \/ \E failed \in BOOLEAN : TurnNoZombie(failed)
    \/ \E pid \in Pids, status \in Statuses : Drain(pid, status)
    \/ \E failed \in BOOLEAN : Shutdown(failed)

SpecLoop == Init /\ [][NextLoop]_vars

\* kcall_handler is a thread of the kernel that keeps running: a turn of the
\* main loop that has started goes on to its end.
SpecLoopFair ==
    /\ SpecLoop
    /\ WF_vars(\E signalled \in BOOLEAN : Handled(signalled))
    /\ WF_vars(\/ \E pid \in Pids, status \in Statuses :
                     TurnHarvest(pid, status)
               \/ \E failed \in BOOLEAN : TurnNoZombie(failed))

\* kcall_handler is a thread of the kernel that keeps running: once out of
\* its main loop, left on Interrupted or on the harvest of PROCD, it goes on
\* harvesting and returns.
SpecDrainFair ==
    /\ SpecLoop
    /\ WF_vars(\E pid \in Pids, status \in Statuses : Drain(pid, status))
    /\ WF_vars(\E failed \in BOOLEAN : Shutdown(failed))

\* kcall_handler is a thread of the kernel that keeps running: once out of
\* its main loop it goes on harvesting and returns.
SpecDispatcherFair ==
    /\ SpecDispatcher
    /\ WF_vars(\E pid \in Pids, status \in Statuses : Drain(pid, status))
    /\ WF_vars(\E failed \in BOOLEAN : Shutdown(failed))

\* ================================================================ claims
\* The slot of an event in the next state.
OwnerNext(ev) ==
    CASE ev.cls = "Interrupt" -> interrupt_ownership'[ev.idx]
      [] ev.cls = "Exception" -> exception_ownership'[ev.idx]
      [] ev.cls = "Scheduling" -> scheduling_ownership'[ev.idx]

\* The capability that gates the registration of a class (spec 4.2).
ClassCapability(cls) ==
    CASE cls = "Interrupt" -> "InterruptControl"
      [] cls = "Exception" -> "ExceptionControl"
      [] cls = "Scheduling" -> "ProcessManagement"
HoldsClassCapability(pid, cls) == ClassCapability(cls) \in capabilities[pid]

\* evctrl reaches the registry for this event: it is not an interrupt event
\* of a kernel that is not interrupt capable.
Supported(ev) == ev.cls = "Interrupt" => interrupt_capable

\* The step is the operation named, with these arguments, on a manager that
\* is initialized and not borrowed.
IsEvCtrl(pid, ev, req) ==
    /\ Access = "Ok"
    /\ last'.op = "evctrl" /\ last'.pid = pid /\ last'.ev = ev
    /\ last'.req = req
    /\ EvCtrl(pid, ev, req)
IsDrop(h) ==
    /\ Access = "Ok"
    /\ last'.op = "drop" /\ last'.ev = h.ev /\ DropHandle(h)
IsWait(pid) ==
    /\ Access = "Ok"
    /\ last'.op = "wait" /\ last'.pid = pid
    /\ (Wait(pid) \/ WaitRetry(pid))
IsInterrupt(intnum) ==
    /\ Access = "Ok"
    /\ last'.op = "wakeup_interrupt" /\ last'.ev.idx = intnum
    /\ interrupt_handler(intnum)
IsFault(pid, num, fault) ==
    /\ Access = "Ok"
    /\ last'.op = "wakeup_exception" /\ last'.pid = pid /\ last'.ev.idx = num
    /\ exception_handler(pid, num, fault)

\* C1, as stated: a Register on a slot that has an owner fails with
\* ResourceBusy and leaves the owner unchanged, whichever pid calls, and a
\* Register succeeds only on a slot that was None.
C1_AsStated ==
    [][\A pid \in Pids, ev \in Events :
          IsEvCtrl(pid, ev, "Register") =>
             /\ Owner(ev) # None =>
                   last'.ret = "ResourceBusy" /\ OwnerNext(ev) = Owner(ev)
             /\ last'.ret = "Ok" => Owner(ev) = None]_vars

\* C1, amended: a Register on a slot that has an owner fails and leaves the
\* owner unchanged, whichever pid calls; the error is ResourceBusy when the
\* caller holds the capability of the class; a Register succeeds only on a
\* slot that was None, and makes the caller the owner.
C1_RegisterNeverOverwrites ==
    [][\A pid \in Pids, ev \in Events :
          IsEvCtrl(pid, ev, "Register") =>
             /\ Owner(ev) # None =>
                   /\ last'.ret \in {"ResourceBusy", "PermissionDenied"}
                   /\ OwnerNext(ev) = Owner(ev)
             /\ (Owner(ev) # None /\ HoldsClassCapability(pid, ev.cls)) =>
                   last'.ret = "ResourceBusy"
             /\ last'.ret = "Ok" => Owner(ev) = None /\ OwnerNext(ev) = pid
             /\ last'.ret # "Ok" => UNCHANGED ownvars]_vars

\* A Register by a process that holds the capability has just failed with
\* ResourceBusy on an exception slot, which keeps its owner.
C1_Witness ==
    /\ last.op = "evctrl" /\ last.req = "Register"
    /\ last.ret = "ResourceBusy"
    /\ last.ev.cls = "Exception"
    /\ exception_ownership[last.ev.idx] # None

\* C2: after a Register on an event has failed with ResourceBusy, an
\* Unregister by the owner succeeds and sets the slot to None; after that
\* Unregister, a Register by a process that holds the capability succeeds and
\* makes it the owner.
C2_UnregisterThenRegister ==
    [][\A pid \in Pids, ev \in Events :
          /\ ( /\ last.op = "evctrl" /\ last.req = "Register"
               /\ last.ret = "ResourceBusy" /\ last.ev = ev
               /\ Owner(ev) = pid
               /\ IsEvCtrl(pid, ev, "Unregister") )
             => (last'.ret = "Ok" /\ OwnerNext(ev) = None)
          /\ ( /\ last.op = "evctrl" /\ last.req = "Unregister"
               /\ last.ret = "Ok" /\ last.ev = ev
               /\ HoldsClassCapability(pid, ev.cls)
               /\ IsEvCtrl(pid, ev, "Register") )
             => (last'.ret = "Ok" /\ OwnerNext(ev) = pid)]_vars

\* C3: dropping an EventOwnership handle sets the slot of its event to None,
\* for every class.
C3_DropClearsSlot ==
    [][\A h \in Handles : IsDrop(h) => OwnerNext(h.ev) = None]_vars

\* C4: a Register by a process without the capability of the class fails
\* with PermissionDenied and changes no slot, whether the slot is free or
\* owned, for every class (for interrupts: on an interrupt capable kernel).
C4_RegisterWithoutCapability ==
    [][\A pid \in Pids, ev \in Events :
          ( /\ ~HoldsClassCapability(pid, ev.cls)
            /\ Supported(ev)
            /\ IsEvCtrl(pid, ev, "Register") )
          => (last'.ret = "PermissionDenied" /\ UNCHANGED ownvars)]_vars

\* C5: an Unregister by a process that is not the owner of the slot (another
\* owner, or none) fails with PermissionDenied and changes no slot, for every
\* class (for interrupts: on an interrupt capable kernel).
C5_UnregisterByNonOwner ==
    [][\A pid \in Pids, ev \in Events :
          ( /\ Owner(ev) # pid
            /\ Supported(ev)
            /\ IsEvCtrl(pid, ev, "Unregister") )
          => (last'.ret = "PermissionDenied" /\ UNCHANGED ownvars)]_vars

\* C6: on a kernel that is not interrupt capable, evctrl on an interrupt
\* event fails with OperationNotSupported and changes no slot, for Register
\* and Unregister; evctrl on exception and scheduling events never fails with
\* OperationNotSupported, and there a Register on a free slot by a process
\* that holds the capability succeeds whatever the interrupt capability.
C6_NotInterruptCapable ==
    [][\A pid \in Pids, ev \in Events, req \in Requests :
          IsEvCtrl(pid, ev, req) =>
             /\ (ev.cls = "Interrupt" /\ ~interrupt_capable) =>
                   (last'.ret = "OperationNotSupported" /\ UNCHANGED ownvars)
             /\ ev.cls # "Interrupt" =>
                   /\ last'.ret # "OperationNotSupported"
                   /\ ( /\ req = "Register" /\ Owner(ev) = None
                        /\ HoldsClassCapability(pid, ev.cls) )
                      => (last'.ret = "Ok" /\ OwnerNext(ev) = pid)]_vars

\* An evctrl on an interrupt event has just been refused on a kernel that is
\* not interrupt capable.
C6_Witness ==
    /\ initialized /\ ~interrupt_capable
    /\ last.op = "evctrl" /\ last.ev.cls = "Interrupt"
    /\ last.ret = "OperationNotSupported"

\* C7: on an interrupt capable kernel, wakeup_interrupt for an IRQ that has
\* an owner is not rejected: it increments nevents and pushes one descriptor
\* onto the queue of the IRQ; a wait of the owner then returns an Interrupt
\* message from KERNEL to the owner.
C7_WakeupInterruptAccepted ==
    [][/\ \A intnum \in Idx :
             ( /\ interrupt_capable
               /\ interrupt_ownership[intnum] # None
               /\ IsInterrupt(intnum) )
             => /\ last'.ret = "Ok"
                /\ nevents' = nevents + 1
                /\ pending_interrupts' =
                     [pending_interrupts EXCEPT ![intnum] =
                        Append(@, EventDescriptor(nevents + 1,
                                    [cls |-> "Interrupt", idx |-> intnum]))]
       /\ \A pid \in Pids :
             ( /\ \E i \in Idx : /\ interrupt_ownership[i] = pid
                                 /\ pending_interrupts[i] # <<>>
               /\ nevents % NUMBER_EVENTS = 0
               /\ IsWait(pid) )
             => /\ last'.msg.message_type = "Interrupt"
                /\ last'.msg.source = KERNEL
                /\ last'.msg.destination = pid]_vars

\* C8: wakeup_interrupt for an IRQ without owner returns NoSuchProcess and
\* leaves every pending_interrupts queue as it was.
C8_UnownedInterruptDropped ==
    [][\A intnum \in Idx :
          (interrupt_ownership[intnum] = None /\ IsInterrupt(intnum))
          => /\ last'.ret = "NoSuchProcess"
             /\ pending_interrupts' = pending_interrupts]_vars

\* C9: an exception on a vector without owner terminates the faulting
\* process: the kernel keeps running, the process is not parked, and no entry
\* is queued for the exception.
C9_UnownedExceptionTerminates ==
    [][\A pid \in Pids, num \in Idx, fault \in FaultInfos :
          (exception_ownership[num] = None /\ IsFault(pid, num, fault))
          => /\ ~panicked'
             /\ pstate'[pid] = "dead"
             /\ pending_exceptions' = pending_exceptions]_vars

\* The entry that wakeup_exception queues for a fault of pid on vector num.
FaultEntry(pid, num, fault) ==
    [desc |-> EventDescriptor(nevents + 1, [cls |-> "Exception", idx |-> num]),
     pid |-> pid,
     info |-> [num |-> num, code |-> fault.code, addr |-> fault.addr,
               instruction |-> fault.instruction],
     resume |-> nevents + 1]

\* A fault on an owned vector queues one entry and parks the faulting
\* process on the ResumeHandle of the entry.
FaultQueuesAndParks ==
    \A pid \in Pids, num \in Idx, fault \in FaultInfos :
       (exception_ownership[num] # None /\ IsFault(pid, num, fault))
       => /\ last'.ret = "Ok"
          /\ nevents' = nevents + 1
          /\ pending_exceptions' =
               [pending_exceptions EXCEPT ![num] =
                  Append(@, FaultEntry(pid, num, fault))]
          /\ pstate'[pid] = "parked"
          /\ parked_on'[pid] = nevents + 1

\* The message is the Exception message to pid for a queue entry.
IsExceptionMessage(msg, pid, entry) ==
    /\ msg.message_type = "Exception"
    /\ msg.destination = pid
    /\ msg.payload = [id |-> entry.desc, pid |-> entry.pid,
                      number |-> entry.desc.ev.idx, code |-> entry.info.code,
                      address |-> entry.info.addr,
                      instruction |-> entry.info.instruction]

\* C10, as stated: the fault queues one entry and parks the faulting
\* process, and the next wait of the owner returns the Exception message of
\* that entry.
C10_AsStated ==
    [][/\ FaultQueuesAndParks
       /\ \A pid \in Pids :
             ( /\ last.op = "wakeup_exception" /\ last.ret = "Ok"
               /\ exception_ownership[last.ev.idx] = pid
               /\ IsWait(pid) )
             => \E k \in 1 .. Len(pending_exceptions[last.ev.idx]) :
                   LET entry == pending_exceptions[last.ev.idx][k]
                   IN  /\ entry.desc.seq = last.seq
                       /\ entry.pid = last.pid
                       /\ IsExceptionMessage(last'.msg, pid, entry)]_vars

\* The masks a wait step of pid polls with: those of the owned slots at entry,
\* those computed at entry after a wakeup.
WaitMasks(pid) ==
    IF pstate[pid] = "woken"
    THEN wmask[pid]
    ELSE [I |-> OwnedMask(interrupt_ownership, pid),
          X |-> OwnedMask(exception_ownership, pid),
          S |-> OwnedMask(scheduling_ownership, pid)]

\* The queue of vector v holds one entry and no other queue that pid polls
\* holds any.
OnlyPending(pid, v) ==
    LET m == WaitMasks(pid)
    IN  /\ v \in m.X
        /\ Len(pending_exceptions[v]) = 1
        /\ \A i \in m.I : pending_interrupts[i] = <<>>
        /\ \A x \in m.X \ {v} : pending_exceptions[x] = <<>>
        /\ \A k \in m.S : pending_scheduling[k] = <<>>

\* C10, amended: the fault queues one entry and parks the faulting process;
\* a wait of the owner returns the Exception message of the entry when the
\* entry is the only event pending on the slots the owner polls.
C10_ExceptionDelivered ==
    [][/\ FaultQueuesAndParks
       /\ \A pid \in Pids, v \in Idx :
             ( /\ exception_ownership[v] = pid
               /\ OnlyPending(pid, v)
               /\ IsWait(pid) )
             => /\ last'.ret = "Ok"
                /\ IsExceptionMessage(last'.msg, pid,
                                      pending_exceptions[v][1])]_vars

\* A has just received the Exception message of the fault of B, which is
\* parked, on a vector A owns.
C10_Witness ==
    /\ last.op = "wait" /\ last.pid = "A" /\ last.ret = "Ok"
    /\ last.msg.message_type = "Exception"
    /\ last.msg.destination = "A"
    /\ last.msg.payload.pid = "B"
    /\ pstate["B"] = "parked"
    /\ exception_ownership[last.msg.payload.number] = "A"
    /\ Len(pending_exceptions[last.msg.payload.number]) = 1
    /\ pending_exceptions[last.msg.payload.number][1].desc.seq = last.seq

\* The step is resume(evdesc).
IsResume(evdesc) ==
    /\ Access = "Ok"
    /\ last'.op = "resume" /\ last'.ev = evdesc.ev /\ last'.seq = evdesc.seq
    /\ Resume(evdesc)

\* The processes whose queue entry carries the descriptor evdesc.
FaultersOf(evdesc) ==
    {p \in Pids :
        \E k \in 1 .. Len(pending_exceptions[evdesc.ev.idx]) :
           LET entry == pending_exceptions[evdesc.ev.idx][k]
           IN  /\ entry.desc = evdesc
               /\ entry.pid = p
               /\ pstate[p] = "parked" /\ parked_on[p] = entry.resume}

\* C11: a process parked on the ResumeHandle of its exception D leaves the
\* parked state only in a step resume(D), a wait that delivers D included,
\* and resume(D) makes the process run again.
C11_ParkedUntilResume ==
    [][/\ \A p \in Pids :
             (pstate[p] = "parked" /\ pstate'[p] # "parked")
             => \E evdesc \in Descriptors :
                   /\ p \in FaultersOf(evdesc)
                   /\ IsResume(evdesc)
       /\ \A evdesc \in Descriptors, p \in Pids :
             (p \in FaultersOf(evdesc) /\ IsResume(evdesc))
             => pstate'[p] = "running"]_vars

\* C12: resume(D) on an owned vector removes from the queue of the vector
\* the entries whose descriptor is D and no other, and unparks the processes
\* of the removed entries and no other.
C12_ResumeRemovesExactlyD ==
    [][\A evdesc \in Descriptors :
          ( /\ evdesc.ev.cls = "Exception"
            /\ exception_ownership[evdesc.ev.idx] # None
            /\ IsResume(evdesc) )
          => /\ pending_exceptions' =
                  [pending_exceptions EXCEPT ![evdesc.ev.idx] =
                     SelectSeq(@, LAMBDA entry : entry.desc # evdesc)]
             /\ \A p \in Pids :
                   pstate[p] = "parked"
                   => (pstate'[p] = "running" <=> p \in FaultersOf(evdesc))
    ]_vars

\* The last step was a wait of pid that delivered the exception entry at the
\* head of the queue of vector v before the step.
JustDelivered(pid, v) ==
    /\ last.op = "wait" /\ last.pid = pid /\ last.ret = "Ok"
    /\ last.msg.message_type = "Exception"
    /\ last.msg.payload.number = v
    /\ \E k \in 1 .. Len(pending_exceptions[v]) :
          pending_exceptions[v][k].desc = last.msg.payload.id

\* C13, as stated: a wait that follows the delivery of D, with D not resumed,
\* delivers D again.
C13_AsStated ==
    [][\A pid \in Pids, v \in Idx :
          (JustDelivered(pid, v) /\ IsWait(pid)) => last'.msg = last.msg
    ]_vars

\* C13, amended: a wait that delivers an exception moves the entry from the
\* head to the tail of its queue, and a wait that follows the delivery of D
\* delivers D again when D is the only event pending on the slots the waiter
\* polls.
C13_RequeuedAtTail ==
    [][/\ \A pid \in Pids :
             (IsWait(pid) /\ last'.msg.message_type = "Exception")
             => LET v == last'.msg.payload.number
                    q == pending_exceptions[v]
                IN  /\ q # <<>>
                    /\ Head(q).desc = last'.msg.payload.id
                    /\ pending_exceptions' =
                         [pending_exceptions EXCEPT ![v] =
                            Append(Tail(q), Head(q))]
       /\ \A pid \in Pids, v \in Idx :
             (JustDelivered(pid, v) /\ OnlyPending(pid, v) /\ IsWait(pid))
             => /\ last'.msg = last.msg
                /\ pending_exceptions' = pending_exceptions]_vars

\* A has just received the older of two entries of a vector, and the entry
\* is now at the tail of the queue, behind the other.
C13_Witness ==
    /\ last.op = "wait" /\ last.pid = "A" /\ last.ret = "Ok"
    /\ last.msg.message_type = "Exception"
    /\ LET q == pending_exceptions[last.msg.payload.number]
       IN  /\ Len(q) = 2
           /\ q[2].desc = last.msg.payload.id
           /\ q[1].desc.seq > q[2].desc.seq

\* The step is the reaping of pid with status.
IsReap(pid, status) ==
    /\ Access = "Ok"
    /\ last'.op = "notify_process_termination" /\ last'.pid = pid
    /\ Reap(pid, status)

\* q1 is q with one element more, at the tail.
Appended(q, q1) == Len(q1) = Len(q) + 1 /\ SubSeq(q1, 1, Len(q)) = q

\* An injection on an owned slot appends to the tail of the queue of the
\* slot a descriptor that carries the next sequence number.
FifoEnqueue ==
    /\ \A intnum \in Idx :
          (interrupt_ownership[intnum] # None /\ IsInterrupt(intnum))
          => /\ Appended(pending_interrupts[intnum],
                         pending_interrupts'[intnum])
             /\ pending_interrupts'[intnum][Len(pending_interrupts'[intnum])]
                   .seq = nevents + 1
    /\ \A pid \in Pids, num \in Idx, fault \in FaultInfos :
          (exception_ownership[num] # None /\ IsFault(pid, num, fault))
          => /\ Appended(pending_exceptions[num], pending_exceptions'[num])
             /\ pending_exceptions'[num][Len(pending_exceptions'[num])]
                   .desc.seq = nevents + 1
    /\ \A pid \in Pids, status \in Statuses :
          ( /\ scheduling_ownership[ProcessTermination] # None
            /\ IsReap(pid, status) )
          => /\ Appended(pending_scheduling[ProcessTermination],
                         pending_scheduling'[ProcessTermination])
             /\ pending_scheduling'[ProcessTermination]
                   [Len(pending_scheduling'[ProcessTermination])]
                   .desc.seq = nevents + 1

\* A wait that returns a kernel event returns the head of a queue, which
\* leaves the head of the queue.
FifoDequeue ==
    \A pid \in Pids :
       (IsWait(pid) /\ last'.ret = "Ok")
       => /\ last'.msg.message_type = "Interrupt"
             => \E i \in Idx :
                   /\ pending_interrupts[i] # <<>>
                   /\ Head(pending_interrupts[i]).seq = last'.seq
                   /\ pending_interrupts' =
                        [pending_interrupts EXCEPT ![i] = Tail(@)]
          /\ last'.msg.message_type = "Exception"
             => \E i \in Idx :
                   /\ pending_exceptions[i] # <<>>
                   /\ Head(pending_exceptions[i]).desc.seq = last'.seq
                   /\ pending_exceptions' =
                        [pending_exceptions EXCEPT ![i] =
                           Append(Tail(@), Head(@))]
          /\ last'.msg.message_type = "SchedulingEvent"
             => \E i \in SchedIdx :
                   /\ pending_scheduling[i] # <<>>
                   /\ Head(pending_scheduling[i]).desc.seq = last'.seq
                   /\ pending_scheduling' =
                        [pending_scheduling EXCEPT ![i] = Tail(@)]

\* C14: for every class, the events injected on an owned slot join the tail
\* of the queue of the slot in the order of their sequence numbers and the
\* waits of the owner take them from its head: delivery from one queue is
\* FIFO.
C14_FifoPerQueue == [][FifoEnqueue /\ FifoDequeue]_vars

\* The sequence numbers of the descriptors in the queues, as a bag.
RECURSIVE SeqBag(_, _)
SeqBag(q, interrupt) ==
    IF q = <<>> THEN EmptyBag
    ELSE SetToBag({IF interrupt THEN Head(q).seq ELSE Head(q).desc.seq})
            (+) SeqBag(Tail(q), interrupt)
RECURSIVE SumBags(_, _, _)
SumBags(queues, S, interrupt) ==
    IF S = {} THEN EmptyBag
    ELSE LET i == CHOOSE j \in S : TRUE
         IN  SeqBag(queues[i], interrupt)
                (+) SumBags(queues, S \ {i}, interrupt)
QueuedSequences(pi, pe, ps) ==
    SumBags(pi, Idx, TRUE) (+) SumBags(pe, Idx, FALSE)
        (+) SumBags(ps, SchedIdx, FALSE)

\* C15: the descriptors in the queues carry pairwise distinct sequence
\* numbers, none above nevents; nevents never decreases; a step that adds a
\* descriptor to a queue adds one descriptor, which carries nevents + 1, and
\* sets nevents to it.
C15_SequenceIncreasing ==
    /\ [](LET b == QueuedSequences(pending_interrupts, pending_exceptions,
                                   pending_scheduling)
          IN  \A n \in BagToSet(b) : CopiesIn(n, b) = 1 /\ n <= nevents)
    /\ [][LET b == QueuedSequences(pending_interrupts, pending_exceptions,
                                   pending_scheduling)
              b1 == QueuedSequences(pending_interrupts', pending_exceptions',
                                    pending_scheduling')
          IN  /\ initialized => nevents' >= nevents
              /\ ~(b1 \sqsubseteq b)
                 => /\ nevents' = nevents + 1
                    /\ b1 = b (+) SetToBag({nevents + 1})]_vars

\* A fault and a termination were injected: the exception entry and the
\* scheduling entry are queued with two different sequence numbers.
C15_Witness ==
    /\ nevents = 2
    /\ \E v \in Idx :
          /\ Len(pending_exceptions[v]) = 1
          /\ Len(pending_scheduling[ProcessTermination]) = 1
          /\ pending_exceptions[v][1].desc.seq
                # pending_scheduling[ProcessTermination][1].desc.seq

\* pid owns a slot of the class whose queue is not empty.
PendingFor(pid, cls) ==
    CASE cls = "Interrupt" ->
            \E i \in Idx : /\ interrupt_ownership[i] = pid
                           /\ pending_interrupts[i] # <<>>
      [] cls = "Exception" ->
            \E i \in Idx : /\ exception_ownership[i] = pid
                           /\ pending_exceptions[i] # <<>>
      [] cls = "SchedulingEvent" ->
            \E i \in SchedIdx : /\ scheduling_ownership[i] = pid
                                /\ pending_scheduling[i] # <<>>
PendingNext(pid, cls) ==
    CASE cls = "Interrupt" ->
            \E i \in Idx : /\ interrupt_ownership'[i] = pid
                           /\ pending_interrupts'[i] # <<>>
      [] cls = "Exception" ->
            \E i \in Idx : /\ exception_ownership'[i] = pid
                           /\ pending_exceptions'[i] # <<>>

\* C16: once an IRQ has fired on a slot of P and a fault is pending on a
\* vector of P, a wait of P returns an Interrupt or an Exception message and
\* leaves the event of the other class pending; a wait of P that follows the
\* delivery of one of the two classes, with the other class pending, returns
\* the other class.
C16_OneOfEachClass ==
    [][\A pid \in Pids :
          /\ ( /\ last.op = "wakeup_interrupt"
               /\ interrupt_ownership[last.ev.idx] = pid
               /\ PendingFor(pid, "Exception")
               /\ IsWait(pid) )
             => \/ /\ last'.msg.message_type = "Interrupt"
                   /\ PendingNext(pid, "Exception")
                \/ /\ last'.msg.message_type = "Exception"
                   /\ PendingNext(pid, "Interrupt")
          /\ ( /\ last.op = "wait" /\ last.pid = pid /\ last.ret = "Ok"
               /\ \/ /\ last.msg.message_type = "Interrupt"
                     /\ PendingFor(pid, "Exception")
                  \/ /\ last.msg.message_type = "Exception"
                     /\ PendingFor(pid, "Interrupt")
               /\ IsWait(pid) )
             => /\ last'.msg.message_type \in {"Interrupt", "Exception"}
                /\ last'.msg.message_type # last.msg.message_type]_vars

KernelClasses == {"Interrupt", "Exception", "SchedulingEvent"}

\* C17: a wait of P with no kernel event pending on a slot P owns and a
\* message in the mailbox of P returns the oldest message of the mailbox; a
\* wait of P with a kernel event pending on a slot P owns returns a kernel
\* event and leaves the mailbox as it is.
C17_IpcAfterKernelEvents ==
    [][\A pid \in Pids :
          IsWait(pid)
          => /\ ( /\ \A cls \in KernelClasses : ~PendingFor(pid, cls)
                  /\ mailbox[pid] # <<>> )
                => /\ last'.ret = "Ok"
                   /\ last'.msg = Head(mailbox[pid])
                   /\ last'.msg.message_type = "Ipc"
                   /\ mailbox' = [mailbox EXCEPT ![pid] = Tail(@)]
             /\ (\E cls \in KernelClasses : PendingFor(pid, cls))
                => /\ last'.ret = "Ok"
                   /\ last'.msg.message_type \in KernelClasses
                   /\ mailbox' = mailbox]_vars

\* C18: a kernel event returned by a wait of pid is the head of a queue
\* whose slot holds pid in the state in which it is dequeued.
C18_OnlyOwnedEvents ==
    [][\A pid \in Pids :
          (IsWait(pid) /\ last'.ret = "Ok")
          => /\ last'.msg.message_type = "Interrupt"
                => \E i \in Idx :
                      /\ interrupt_ownership[i] = pid
                      /\ pending_interrupts[i] # <<>>
                      /\ Head(pending_interrupts[i]).seq = last'.seq
             /\ last'.msg.message_type = "Exception"
                => \E i \in Idx :
                      /\ exception_ownership[i] = pid
                      /\ pending_exceptions[i] # <<>>
                      /\ Head(pending_exceptions[i]).desc.seq = last'.seq
             /\ last'.msg.message_type = "SchedulingEvent"
                => \E i \in SchedIdx :
                      /\ scheduling_ownership[i] = pid
                      /\ pending_scheduling[i] # <<>>
                      /\ Head(pending_scheduling[i]).desc.seq = last'.seq
    ]_vars

\* The step is the harvest of the zombie (pid, status) in the main loop.
IsHarvest(pid, status) ==
    /\ Access = "Ok"
    /\ last'.op = "harvest_zombies" /\ last'.pid = pid
    /\ Harvest(pid, status)

\* The termination record at the start of a payload.
RecordOf(payload) ==
    [pid |-> CHOOSE p \in Pids \cup {KERNEL} :
                Bytes4(PidNumber(p)) = SubSeq(payload, 1, 4),
     status |-> payload[5] + 256 * payload[6] + 65536 * payload[7]
                  + 16777216 * (IF payload[8] >= 128 THEN payload[8] - 256
                                ELSE payload[8])]

\* C19: the harvest of a zombie (pid, status) other than PROCD appends to
\* the ProcessTermination queue an entry with that pid and status and the
\* next sequence number; a wait of the owner of ProcessTermination that has
\* no interrupt or exception to return takes the head of the queue and
\* returns a SchedulingEvent message from KERNEL to the owner whose payload
\* begins with the record of that entry.
C19_ZombieToEvent ==
    [][/\ \A pid \in Pids \ {"PROCD"}, status \in Statuses :
             IsHarvest(pid, status)
             => /\ nevents' = nevents + 1
                /\ pending_scheduling' =
                     [pending_scheduling EXCEPT ![ProcessTermination] =
                        Append(@, [desc |-> EventDescriptor(nevents + 1,
                                              [cls |-> "Scheduling",
                                               idx |-> ProcessTermination]),
                                   info |-> [pid |-> pid,
                                             status |-> status]])]
       /\ \A pid \in Pids :
             LET m == WaitMasks(pid)
                 q == pending_scheduling[ProcessTermination]
             IN  ( /\ scheduling_ownership[ProcessTermination] = pid
                   /\ ProcessTermination \in m.S
                   /\ q # <<>>
                   /\ Ready(m.I, pending_interrupts) = {}
                   /\ Ready(m.X, pending_exceptions) = {}
                   /\ IsWait(pid) )
                 => /\ last'.ret = "Ok"
                    /\ last'.msg.message_type = "SchedulingEvent"
                    /\ last'.msg.source = KERNEL
                    /\ last'.msg.destination = pid
                    /\ RecordOf(last'.msg.payload) = Head(q).info
                    /\ pending_scheduling' =
                         [pending_scheduling EXCEPT
                            ![ProcessTermination] = Tail(q)]]_vars

\* A, the owner of ProcessTermination, has just received the termination of
\* B with exit status -1.
C19_Witness ==
    /\ last.op = "wait" /\ last.pid = "A" /\ last.ret = "Ok"
    /\ last.msg.message_type = "SchedulingEvent"
    /\ scheduling_ownership[ProcessTermination] = "A"
    /\ RecordOf(last.msg.payload) = [pid |-> "B", status |-> -1]
    /\ pstate["B"] = "dead"

\* The operations kcall_handler serves in its main loop.
KcallOps == {"evctrl", "post_message", "terminate", "harvest_zombies",
             "notify_process_termination"}

\* C20: the harvest of PROCD enqueues nothing and ends the main loop; from
\* then on no kcall is served and no zombie is published; the remaining
\* zombies are harvested and the dispatcher returns, with no zombie left.
C20_ProcdShutsDown ==
    /\ [][/\ \A status \in Statuses :
                IsHarvest("PROCD", status)
                => /\ dispatcher' = "drain"
                   /\ nevents' = nevents
                   /\ UNCHANGED pendvars
          /\ dispatcher # "loop"
                => /\ dispatcher' # "loop"
                   /\ last'.op \notin KcallOps
                   /\ nevents' = nevents
                   /\ zombies' \subseteq zombies
                   /\ \A i \in SchedIdx :
                         Len(pending_scheduling'[i])
                            <= Len(pending_scheduling[i])]_vars
    /\ [](dispatcher = "done" => zombies = {})
    /\ (dispatcher = "drain") ~> (dispatcher = "done")

\* The dispatcher has returned after PROCD was harvested first: A and B were
\* zombies then, were drained, and no termination was ever published.
C20_Witness ==
    /\ dispatcher = "done"
    /\ \A p \in Pids : pstate[p] = "dead"
    /\ nevents = 0
    /\ pending_scheduling[ProcessTermination] = <<>>

\* C21: the main loop of kcall_handler is left exactly when
\* scoreboard.handle() fails with Interrupted or when PROCD is harvested; on
\* OperationWouldBlock it calls ProcessManager::switch and goes on, and after
\* any other error of the scoreboard, an error of a handler or a failed
\* notify_process_termination it goes on to the next turn: a turn that has
\* started reaches the next read of the scoreboard unless the loop is left.
C21_LoopExits ==
    /\ [][/\ (dispatcher = "loop" /\ dispatcher' # "loop") <=>
                /\ dispatcher = "loop"
                /\ \/ /\ pc = "handle"
                      /\ last'.op = "handle"
                      /\ last'.ret = "Interrupted"
                   \/ /\ pc = "harvest"
                      /\ last'.op = "harvest_zombies"
                      /\ last'.pid = "PROCD"
          /\ ( /\ pc = "handle" /\ dispatcher = "loop"
               /\ last'.op = "handle"
               /\ last'.ret = "OperationWouldBlock" )
             => (last'.req = "switch" /\ dispatcher' = "loop"
                 /\ pc' = "harvest")
          /\ ( /\ pc = "handle" /\ dispatcher = "loop"
               /\ last'.op = "handle"
               /\ last'.ret \notin {"Interrupted", "OperationWouldBlock"} )
             => (dispatcher' = "loop" /\ pc' \in {"handled", "harvest"})
          /\ ( /\ pc = "harvest" /\ dispatcher = "loop"
               /\ last'.op = "harvest_zombies"
               /\ last'.pid # "PROCD" )
             => (dispatcher' = "loop" /\ pc' = "handle")]_vars
    /\ (dispatcher = "loop" /\ pc # "handle")
          ~> (dispatcher # "loop" \/ pc = "handle")

\* The publication of a termination has just failed for want of an owner and
\* kcall_handler is back at the read of the scoreboard.
C21_Witness ==
    /\ dispatcher = "loop" /\ pc = "handle"
    /\ last.op = "harvest_zombies" /\ last.ret = "NoSuchProcess"

\* C22: every request that kcall_handler reads from the scoreboard gets
\* exactly one scoreboard.handled(ret) before the next request is read: at
\* most one request is taken and unanswered, a request is read only when none
\* is, and the step of kcall_handler after the read is the reply with the
\* value the dispatch returned; GetPid, GetTid and a number that is not a
\* KcallNumber are answered InvalidSysCall and change nothing in the kernel.
C22_OneReplyPerRequest ==
    /\ [](/\ scoreboard.taken \in {0, 1}
          /\ scoreboard.taken = 1 <=> (dispatcher = "loop" /\ pc = "handled"))
    /\ [][/\ Serve =>
                /\ scoreboard.taken = 0 /\ scoreboard'.taken = 1
                /\ pc' = "handled"
                /\ scoreboard.request.number \in {"GetPid", "GetTid", "Unknown"}
                     => /\ reply' = "InvalidSysCall"
                        /\ UNCHANGED <<emvars, capabilities, mailbox,
                                       procvars, handles, zombies>>
          /\ (pc = "handled" /\ (pc' # "handled" \/ dispatcher' # "loop"))
                => /\ last'.op = "handled" /\ last'.ret = reply
                   /\ scoreboard'.taken = 0
                   /\ pc' = "harvest" /\ dispatcher' = "loop"
          /\ scoreboard'.taken < scoreboard.taken => pc = "handled"]_vars

\* A request that no handler serves has just been answered InvalidSysCall.
C22_Witness ==
    /\ last.op = "handled" /\ last.ret = "InvalidSysCall"
    /\ pc = "harvest" /\ scoreboard.taken = 0

\* C23: a Recv request read by kcall_handler is served: it returns 0 with the
\* next deliverable message of the caller copied out.
C23_RecvServed ==
    [][(Serve /\ scoreboard.request.number = "Recv")
          => (reply' = "Ok" /\ last'.msg # NoMsg)]_vars

\* C24: for any sequence of send and receive on a Mailbox, the messages
\* received are, in order, the first messages sent, each once; receive yields
\* None exactly when every message sent has been received, and otherwise the
\* oldest message not yet received; send and receive are always possible.
C24_MailboxFifo ==
    /\ [](/\ Len(history.received) <= Len(history.sent)
          /\ history.received =
                SubSeq(history.sent, 1, Len(history.received))
          /\ history.received \o mailbox["A"] = history.sent)
    /\ [][(last'.op = "receive" /\ MailboxReceive) =>
             /\ last'.ret = "None" <=>
                   Len(history.received) = Len(history.sent)
             /\ last'.ret = "None" =>
                   (last'.msg = NoMsg /\ UNCHANGED <<history, mailbox>>)
             /\ last'.ret = "Some" =>
                   /\ last'.msg = history.sent[Len(history.received) + 1]
                   /\ history'.received =
                         Append(history.received, last'.msg)]_vars
    /\ [](/\ ENABLED MailboxReceive
          /\ Len(history.sent) < MaxSent =>
                \A message \in Letters : ENABLED MailboxSend(message))

\* Three messages were sent, two from different senders were received in
\* the order of their sending, and the third is still in the buffer.
C24_Witness ==
    /\ Len(history.sent) = 3 /\ Len(history.received) = 2
    /\ history.sent[1] # history.sent[2]
    /\ last.op = "receive" /\ last.msg = history.sent[2]
    /\ Len(mailbox["A"]) = 1

\* C25: before init has run, evctrl, wait, post_message and
\* notify_process_termination fail with TryAgain and change neither the
\* manager nor a mailbox, a handle or the caller; the step of init leaves every
\* ownership slot None, every pending queue empty and nevents 0.
C25_TryAgainBeforeInit ==
    [][/\ ( /\ ~initialized
            /\ last'.op \in {"evctrl", "wait", "post_message",
                             "notify_process_termination"} )
          => /\ last'.ret = "TryAgain"
             /\ UNCHANGED <<emvars, mailbox, handles, wmask, parked_on>>
             /\ last'.op # "notify_process_termination" => UNCHANGED pstate
       /\ (~initialized /\ initialized')
          => /\ last'.op = "init"
             /\ nevents' = 0
             /\ \A i \in Idx : /\ interrupt_ownership'[i] = None
                               /\ exception_ownership'[i] = None
                               /\ pending_interrupts'[i] = <<>>
                               /\ pending_exceptions'[i] = <<>>
             /\ \A i \in SchedIdx : /\ scheduling_ownership'[i] = None
                                    /\ pending_scheduling'[i] = <<>>]_vars

\* A Register by a process that holds the capability has just been refused
\* because init has not run.
C25_Witness ==
    /\ ~initialized
    /\ last.op = "evctrl" /\ last.req = "Register" /\ last.pid = "PROCD"
    /\ last.ret = "TryAgain"

\* The operations that go through try_borrow_mut: every operation of the
\* manager but the resume of an interrupt or scheduling descriptor, which
\* returns without a look at the manager.
Borrowing ==
    /\ last'.op \in {"evctrl", "drop", "wait", "wakeup_interrupt",
                     "wakeup_exception", "resume", "post_message",
                     "notify_process_termination"}
    /\ last'.op = "resume" => last'.ev.cls = "Exception"

\* C26: an operation of the manager attempted while the exclusive borrow is
\* held ends with PermissionDenied, changes neither the tables of the manager
\* nor a mailbox, and does not panic.
C26_BorrowedIsDenied ==
    [][(initialized /\ borrowed /\ Borrowing)
          => /\ last'.ret = "PermissionDenied"
             /\ UNCHANGED <<emvars, mailbox, borrowed>>
             /\ ~panicked']_vars

\* A fault has just found the manager borrowed.
C26_Witness ==
    /\ borrowed
    /\ last.op = "wakeup_exception" /\ last.ret = "PermissionDenied"

\* C27: no exception is lost: every fault that reaches exception_handler,
\* here on a vector that has an owner so that wakeup_exception does not panic,
\* ends with the faulting process parked on the ResumeHandle of an entry
\* queued for it on the vector, or with the process terminated; the handler
\* never hands control back to the faulting code, the manager borrowed or
\* wakeup_exception failing included.
C27_NoExceptionLost ==
    [][\A pid \in Pids, num \in Idx, fault \in FaultInfos :
          ( /\ exception_ownership[num] # None
            /\ last'.op = "wakeup_exception" /\ last'.pid = pid
            /\ last'.ev.idx = num
            /\ exception_handler(pid, num, fault) )
          => \/ /\ pstate'[pid] = "parked"
                /\ \E k \in 1 .. Len(pending_exceptions'[num]) :
                      /\ pending_exceptions'[num][k].pid = pid
                      /\ pending_exceptions'[num][k].resume = parked_on'[pid]
             \/ pstate'[pid] \in {"zombie", "dead"}]_vars

\* C28: an exception entry leaves its queue only through resume: no step of
\* wait, evctrl, a handle drop or an injector makes a pending_exceptions queue
\* shorter, only a resume of an exception of that vector does; and a wait that
\* delivers an exception leaves its queue with the same entries, the
\* delivered one moved to the tail, and the other queues as they were.
C28_OnlyResumeRemoves ==
    [][/\ \A v \in Idx :
             Len(pending_exceptions'[v]) < Len(pending_exceptions[v])
             => /\ last'.op = "resume"
                /\ last'.ev = [cls |-> "Exception", idx |-> v]
                /\ \E evdesc \in Descriptors : Resume(evdesc)
       /\ \A pid \in Pids :
             (IsWait(pid) /\ last'.msg.message_type = "Exception")
             => LET v == last'.msg.payload.number
                    q == pending_exceptions[v]
                    q1 == pending_exceptions'[v]
                IN  /\ Len(q1) = Len(q)
                    /\ \E k \in 1 .. Len(q) :
                          /\ q[k].desc = last'.msg.payload.id
                          /\ q1 = Append(Remove(q, k), q[k])
                    /\ \A w \in Idx \ {v} :
                          pending_exceptions'[w] = pending_exceptions[w]]_vars

\* A handle on an exception has just been dropped with two entries pending
\* on the vector: both are still queued.
C28_Witness ==
    /\ last.op = "drop" /\ last.ret = "Ok" /\ last.ev.cls = "Exception"
    /\ Len(pending_exceptions[last.ev.idx]) = 2

\* C29: a resume of an exception descriptor whose vector has no owner at the
\* time of the call terminates the faulting process: the kernel keeps
\* running, and the process is neither resumed nor left parked.
C29_ResumeUnownedTerminates ==
    [][\A evdesc \in Descriptors, p \in Pids :
          ( /\ evdesc.ev.cls = "Exception"
            /\ exception_ownership[evdesc.ev.idx] = None
            /\ p \in FaultersOf(evdesc)
            /\ IsResume(evdesc) )
          => /\ ~panicked'
             /\ pstate'[p] \in {"zombie", "dead"}]_vars

\* The queues of class c (0 interrupt, 1 exception, 2 scheduling) and the
\* mask try_wait is given for the class.
QueuesOf(c) ==
    CASE c = 0 -> pending_interrupts
      [] c = 1 -> pending_exceptions
      [] c = 2 -> pending_scheduling
MaskOf(c) ==
    CASE c = 0 -> wmask["A"].I
      [] c = 1 -> wmask["A"].X
      [] c = 2 -> wmask["A"].S
\* The indices of class c that are in the mask and whose queue is not empty.
Deliverable(c) == {i \in MaskOf(c) : QueuesOf(c)[i] # <<>>}
\* The place of class c in the cyclic order that starts at nevents mod 3.
Turn(c) == (c + NUMBER_EVENTS - (nevents % NUMBER_EVENTS)) % NUMBER_EVENTS
TypeOfClass(c) ==
    CASE c = 0 -> "Interrupt"
      [] c = 1 -> "Exception"
      [] c = 2 -> "SchedulingEvent"
\* The sequence number of the descriptor at the head of queue i of class c.
HeadSeq(c, i) ==
    IF c = 0 THEN Head(QueuesOf(c)[i]).seq ELSE Head(QueuesOf(c)[i]).desc.seq

\* C30: try_wait(pid, I, X, S) returns the event of the first class, in the
\* cyclic order interrupt, exception, scheduling started at nevents mod 3,
\* that has a non-empty queue at an index of the mask, and in that class the
\* head of the queue of the lowest such index; it returns the head of the
\* mailbox only when no class has such a queue, and None only when the mailbox
\* is empty as well.
C30_TryWaitOrder ==
    [][(last'.op = "try_wait" /\ last'.pid = "A")
          => LET classes == {c \in 0 .. NUMBER_EVENTS - 1 :
                                Deliverable(c) # {}}
             IN  IF classes # {}
                 THEN \E c \in classes : \E i \in Deliverable(c) :
                         /\ \A d \in classes : Turn(c) <= Turn(d)
                         /\ \A j \in Deliverable(c) : i <= j
                         /\ last'.msg.message_type = TypeOfClass(c)
                         /\ last'.msg.source = KERNEL
                         /\ last'.msg.destination = "A"
                         /\ last'.seq = HeadSeq(c, i)
                         /\ mailbox' = mailbox
                 ELSE IF mailbox["A"] # <<>>
                 THEN /\ last'.msg = Head(mailbox["A"])
                      /\ mailbox'["A"] = Tail(mailbox["A"])
                      /\ UNCHANGED pendvars
                 ELSE /\ last'.msg = NoMsg
                      /\ UNCHANGED <<pendvars, mailbox>>]_vars

\* With nevents mod 3 = 1, try_wait has just returned the exception of vector
\* 1, the lowest vector of the mask with an entry, although an interrupt of
\* the mask is pending and the mailbox holds a message.
C30_Witness ==
    /\ nevents % NUMBER_EVENTS = 1
    /\ last.op = "try_wait" /\ last.msg.message_type = "Exception"
    /\ last.msg.payload.number = 1
    /\ wmask["A"].X = {0, 1} /\ pending_exceptions[0] = <<>>
    /\ \E i \in wmask["A"].I : pending_interrupts[i] # <<>>
    /\ mailbox["A"] # <<>>

\* The messages of a history that go to pid, in their order.
MessagesTo(log, pid) == SelectSeq(log, LAMBDA m : m.destination = pid)
\* The sequence number seq was given out by the injector op.
InjectedBy(seq, op) ==
    seq \in DOMAIN history.injected /\ history.injected[seq].op = op
\* The sequence number seq has been returned by a wait as an interrupt or a
\* scheduling event.
Delivered(seq) == \E k \in DOMAIN history.delivered : history.delivered[k] = seq

\* C31: a wait returns exactly when try_wait yields a message, and the
\* message was injected or posted before: an Interrupt message carries a
\* sequence number given out by wakeup_interrupt, a SchedulingEvent message
\* one given out by notify_process_termination, and neither number was
\* returned by a wait before, so that an injection is delivered at most
\* once; an Exception message carries a number given out by
\* wakeup_exception; the IPC messages returned to a process are, in order,
\* the first messages posted to it, each once.
C31_OnlyInjectedMessages ==
    /\ [](/\ Len(history.injected) = nevents
          /\ \A k, l \in DOMAIN history.delivered :
                history.delivered[k] = history.delivered[l] => k = l
          /\ \A k \in DOMAIN history.delivered :
                \/ InjectedBy(history.delivered[k], "wakeup_interrupt")
                \/ InjectedBy(history.delivered[k],
                              "notify_process_termination")
          /\ \A p \in Pids :
                LET got == MessagesTo(history.received, p)
                    put == MessagesTo(history.sent, p)
                IN  Len(got) <= Len(put) /\ got = SubSeq(put, 1, Len(got)))
    /\ [][\A pid \in Pids :
             IsWait(pid) =>
                /\ last'.ret = "Ok" <=> last'.msg # NoMsg
                /\ last'.ret # "Ok" => pstate'[pid] = "blocked"
                /\ last'.ret = "Ok" =>
                      /\ last'.msg.destination = pid
                      /\ last'.msg.message_type \in
                            {"Interrupt", "Exception", "SchedulingEvent",
                             "Ipc"}
                      /\ last'.msg.message_type = "Interrupt" =>
                            /\ InjectedBy(last'.seq, "wakeup_interrupt")
                            /\ ~Delivered(last'.seq)
                      /\ last'.msg.message_type = "SchedulingEvent" =>
                            /\ InjectedBy(last'.seq,
                                          "notify_process_termination")
                            /\ ~Delivered(last'.seq)
                      /\ last'.msg.message_type = "Exception" =>
                            InjectedBy(last'.seq, "wakeup_exception")
                      /\ last'.msg.message_type = "Ipc" =>
                            LET got == MessagesTo(history.received, pid)
                                put == MessagesTo(history.sent, pid)
                            IN  /\ Len(got) < Len(put)
                                /\ last'.msg = put[Len(got) + 1]]_vars

\* PROCD has received the termination of B as a scheduling event and, in its
\* last wait, the second of two IPC messages posted to it.
C31_Witness ==
    /\ last.op = "wait" /\ last.pid = "PROCD" /\ last.ret = "Ok"
    /\ last.msg.message_type = "Ipc"
    /\ Len(history.sent) = 2 /\ Len(history.received) = 2
    /\ Len(history.delivered) = 1
    /\ InjectedBy(history.delivered[1], "notify_process_termination")

\* The entries of the pending_exceptions queues, each with its place.
PendingEntries ==
    UNION {{[v |-> v, k |-> k] : k \in 1 .. Len(pending_exceptions[v])} :
              v \in Idx}
EntryAt(e) == pending_exceptions[e.v][e.k]
\* The entries whose ResumeHandle process p is parked on.
EntriesOf(p) ==
    {e \in PendingEntries :
        EntryAt(e).pid = p /\ EntryAt(e).resume = parked_on[p]}

\* C32: in every reachable state each pending exception entry holds a
\* ResumeHandle of its own, on which its faulting process and no other is
\* parked, and each parked process has exactly one entry; a fault creates a
\* handle that no entry holds yet, and a process leaves its handle only in
\* the step of the resume that removes its entry.
C32_EntriesMatchParked ==
    /\ [](/\ \A e \in PendingEntries :
                /\ pstate[EntryAt(e).pid] = "parked"
                /\ parked_on[EntryAt(e).pid] = EntryAt(e).resume
                /\ \A f \in PendingEntries :
                      EntryAt(f).resume = EntryAt(e).resume => f = e
                /\ \A p \in Pids :
                      (pstate[p] = "parked"
                          /\ parked_on[p] = EntryAt(e).resume)
                      => p = EntryAt(e).pid
          /\ \A p \in Pids :
                pstate[p] = "parked" => Cardinality(EntriesOf(p)) = 1)
    /\ [][/\ \A pid \in Pids, num \in Idx, fault \in FaultInfos :
                (IsFault(pid, num, fault) /\ pstate'[pid] = "parked")
                => \A e \in PendingEntries :
                      EntryAt(e).resume # parked_on'[pid]
          /\ \A p \in Pids :
                (pstate[p] = "parked" /\ pstate'[p] # "parked")
                => /\ last'.op = "resume"
                   /\ \E e \in EntriesOf(p) :
                         pending_exceptions'[e.v] =
                            Remove(pending_exceptions[e.v], e.k)]_vars

\* The queue of the ProcessTermination event.
Terminations == pending_scheduling[ProcessTermination]

\* C33: the harvest of a zombie other than PROCD while ProcessTermination has
\* no owner ends with NoSuchProcess after the termination entry has joined
\* the tail of the queue, and the main loop goes on; the queue is in the order
\* of the injections and changes only at its tail, by an injection, and at
\* its head, by a wait that returns the head as a SchedulingEvent; a wait of
\* the process that owns ProcessTermination by then returns the head entry.
C33_UnownedTerminationKept ==
    /\ [](\A k, l \in 1 .. Len(Terminations) :
             k < l => Terminations[k].desc.seq < Terminations[l].desc.seq)
    /\ [][/\ \A pid \in Pids \ {"PROCD"}, status \in Statuses :
                ( /\ scheduling_ownership[ProcessTermination] = None
                  /\ IsHarvest(pid, status) )
                => /\ last'.ret = "NoSuchProcess"
                   /\ pending_scheduling'[ProcessTermination] =
                        Append(Terminations,
                               [desc |-> EventDescriptor(nevents + 1,
                                            [cls |-> "Scheduling",
                                             idx |-> ProcessTermination]),
                                info |-> [pid |-> pid, status |-> status]])
                   /\ dispatcher' = "loop"
          /\ \/ pending_scheduling'[ProcessTermination] = Terminations
             \/ /\ Appended(Terminations,
                            pending_scheduling'[ProcessTermination])
                /\ last'.op = "harvest_zombies"
             \/ /\ Terminations # <<>>
                /\ pending_scheduling'[ProcessTermination] =
                      Tail(Terminations)
                /\ last'.op = "wait"
                /\ last'.msg.message_type = "SchedulingEvent"
                /\ last'.seq = Head(Terminations).desc.seq
          /\ \A pid \in Pids :
                ( /\ scheduling_ownership[ProcessTermination] = pid
                  /\ pstate[pid] = "running"
                  /\ Terminations # <<>>
                  /\ IsWait(pid) )
                => /\ last'.ret = "Ok"
                   /\ last'.msg.message_type = "SchedulingEvent"
                   /\ last'.msg.destination = pid
                   /\ last'.seq = Head(Terminations).desc.seq
                   /\ RecordOf(last'.msg.payload) = Head(Terminations).info
                   /\ pending_scheduling'[ProcessTermination] =
                         Tail(Terminations)]_vars

\* Two terminations were published while ProcessTermination had no owner;
\* the process that registered afterwards has just received the first, and
\* the second is still queued.
C33_Witness ==
    /\ last.op = "wait" /\ last.ret = "Ok"
    /\ last.msg.message_type = "SchedulingEvent" /\ last.seq = 1
    /\ scheduling_ownership[ProcessTermination] = last.pid
    /\ Len(history.injected) = 2
    /\ \A n \in 1 .. 2 : history.injected[n].ret = "NoSuchProcess"
    /\ Len(Terminations) = 1 /\ Terminations[1].desc.seq = 2

\* C34: once the main loop is left, kcall_handler returns, and at its return
\* no zombie is left: every zombie that remained at the exit of the loop has
\* been harvested by the drain, a failure of harvest_zombies included; after
\* the exit no zombie is added and none is published.
C34_DrainLeavesNoZombie ==
    /\ [](dispatcher = "done" => zombies = {})
    /\ [][dispatcher # "loop"
             => /\ dispatcher' # "loop"
                /\ zombies' \subseteq zombies
                /\ nevents' = nevents]_vars
    /\ (dispatcher = "drain") ~> (dispatcher = "done")

\* The last step was a wait of pid that returned a message.
Returned(pid) == last.op = "wait" /\ last.pid = pid /\ last.ret = "Ok"
\* pid is inside wait and the last step was the publication of a termination
\* while pid owned ProcessTermination.
TerminationInjectedFor(pid) ==
    /\ pstate[pid] = "woken"
    /\ last.op = "notify_process_termination" /\ last.ret = "Ok"
    /\ scheduling_ownership[ProcessTermination] = pid
\* pid is inside wait and the last step was the post of a message to pid.
MessagePostedFor(pid) ==
    /\ pstate[pid] = "woken"
    /\ last.op = "post_message" /\ last.ret = "Ok"
    /\ last.msg.destination = pid

\* C35: no wakeup is lost: when a termination is published while P owns
\* ProcessTermination and is inside wait, or a message is posted to P while P
\* is inside wait, the wait of P returns a message later on; for the
\* termination, as long as P is still the owner of the event.
C35_NoLostWakeup ==
    \A pid \in {"PROCD", "A"} :
       /\ TerminationInjectedFor(pid)
             ~> (Returned(pid)
                    \/ scheduling_ownership[ProcessTermination] # pid)
       /\ MessagePostedFor(pid) ~> Returned(pid)

\* C36: the drop of a handle clears a slot only while the process the handle
\* was issued to still owns it: when another process owns the event, the
\* drop of the old handle leaves that owner in place.
C36_DropKeepsNewOwner ==
    [][\A h \in Handles :
          (IsDrop(h) /\ Owner(h.ev) \notin {None, h.pid})
             => OwnerNext(h.ev) = Owner(h.ev)]_vars

\* C37: resume is idempotent on a descriptor: a resume of the descriptor that
\* the preceding step resumed with success returns Ok, removes no entry of
\* pending_exceptions and unparks no process.
C37_ResumeIdempotent ==
    [][\A evdesc \in [seq : 1 .. MaxEvents, ev : ExceptionEvents] :
          (/\ last.op = "resume" /\ last.ret = "Ok"
           /\ last.ev = evdesc.ev /\ last.seq = evdesc.seq
           /\ IsResume(evdesc))
             => /\ last'.ret = "Ok"
                /\ pending_exceptions' = pending_exceptions
                /\ pstate' = pstate
                /\ parked_on' = parked_on]_vars

\* The processes whose flow of control is suspended: blocked on the condvar,
\* woken and waiting for the CPU, or parked on a ResumeHandle.
Suspended == {p \in Pids : pstate[p] \in {"blocked", "woken", "parked"}}

\* C38: no flow of control holds the exclusive borrow of the manager while it
\* is suspended: the manager is not borrowed while a process is blocked in
\* wait or parked by exception_handler, and an operation that runs then does
\* not end with PermissionDenied; an evctrl ends with the answer of the
\* registry, which is PermissionDenied only for a missing capability or a
\* slot of another process.
C38_NoBorrowWhileSuspended ==
    /\ [](Suspended # {} => ~borrowed)
    /\ [][(initialized /\ Suspended # {} /\ Borrowing)
             => IF last'.op = "evctrl"
                THEN last'.ret = evctrl(last'.pid, last'.ev, last'.req).ret
                ELSE last'.ret # "PermissionDenied"]_vars

\* A message has just been posted with success while PROCD is inside wait and
\* B is parked by exception_handler.
C38_Witness ==
    /\ last.op = "post_message" /\ last.ret = "Ok"
    /\ pstate["PROCD"] \in {"blocked", "woken"}
    /\ pstate["B"] = "parked"
    /\ ~borrowed

\* C39: each operation of the manager changes only its own part of the state:
\* an evctrl and a handle drop change at most the addressed ownership slot
\* and leave nevents and the pending queues as they were; wait and resume
\* leave nevents and the ownership slots as they were; the injectors leave
\* the ownership slots as they were.
C39_FrameEffects ==
    [][/\ last'.op \in {"evctrl", "drop"}
          => /\ nevents' = nevents
             /\ UNCHANGED pendvars
             /\ \A ev \in Events :
                   ev # last'.ev => OwnerNext(ev) = Owner(ev)
       /\ last'.op \in {"wait", "resume"}
          => UNCHANGED <<nevents, ownvars>>
       /\ last'.op \in {"wakeup_interrupt", "wakeup_exception",
                        "notify_process_termination"}
          => UNCHANGED ownvars]_vars

\* PROCD has just unregistered an exception that it owned, with a termination
\* pending on the scheduling slot that it owns.
C39_Witness ==
    /\ last.op = "evctrl" /\ last.req = "Unregister" /\ last.ret = "Ok"
    /\ last.ev.cls = "Exception"
    /\ nevents > 0
    /\ pending_scheduling[ProcessTermination] # <<>>
    /\ scheduling_ownership[ProcessTermination] = "PROCD"

TypeOK ==
    /\ initialized \in BOOLEAN
    /\ nevents \in 0 .. MaxEvents
    /\ dispatcher \in {"loop", "drain", "done"}
    /\ zombies \subseteq [pid : Pids, status : Statuses]
    /\ borrowed \in BOOLEAN
    /\ scoreboard.taken \in 0 .. 1
    /\ pc \in {"handle", "handled", "harvest"}
    /\ Len(history.sent) <= MaxSent
====
